---- MODULE Spec2Model ----
(***************************************************************************)
(* The xDS gRPC server of contour and the resource caches it streams from. *)
(*                                                                         *)
(* Two revisions of the server are present in the sources:                 *)
(*   - src/unnamed/part_005: grpcServer with a registry of resource types  *)
(*     keyed by type_url, stream() and fetch() with resource-name filters; *)
(*   - src/unnamed/part_006: one service per type (CDS, EDS, LDS, RDS),    *)
(*     stream0() and fetch(r, version, nonce) without filters.             *)
(* Spec is the server of part_005, Spec0 the server of part_006.  They     *)
(* share the resource caches and their condition variable (Register /      *)
(* Notify), which is not in the sources and is modelled from the           *)
(* specification text.  proto.Marshal of a cache's resources is taken to   *)
(* succeed, and the connection counter, which only labels log lines, is    *)
(* left out.                                                               *)
(***************************************************************************)
EXTENDS Integers, Sequences, FiniteSets, TLC

(***************************************************************************)
(* Bounds of the model.                                                    *)
(***************************************************************************)
\* total number of cache updates (Notify calls) over all resource caches
MaxUpdates == 2
\* number of DiscoveryRequests a peer writes on one stream
MaxReqs == 2
\* number of Kubernetes events the Translator handles
MaxEvents == 2
\* number of Insert and Remove calls on the DAG
MaxOps == 2
\* number of ingress events the Translator's virtual hosts are followed for
MaxVhostEvents == 3
\* number of Insert and Remove calls on the status builder's source
MaxStatusOps == 3
\* number of status updates made for the HTTPRoute, and the generation its
\* spec is followed to
MaxRouteUpdates == 3
MaxGeneration == 2
\* the time the EventHandler is followed for, in milliseconds
MaxTime == 1200

(***************************************************************************)
(* Resource types in xDS v2 (part_006 lines 36-43).                        *)
(***************************************************************************)
googleApis == "type.googleapis.com/"
typePrefix == googleApis \o "envoy.api.v2."
endpointType == typePrefix \o "ClusterLoadAssignment"
clusterType == typePrefix \o "Cluster"
routeType == typePrefix \o "RouteConfiguration"
listenerType == typePrefix \o "Listener"

\* the keys of grpcServer.resources
RegisteredTypes == {clusterType, endpointType, listenerType, routeType}

\* a type_url no resource is registered for
unknownType == typePrefix \o "Secret"

TypeURLs == RegisteredTypes \cup {unknownType}

\* the caches that are updated in the model: one that can be empty, and the
\* route cache; the endpoint and listener caches stay as constructed
UpdatedTypes == {clusterType, routeType}

(***************************************************************************)
(* Inputs.  Resources are identified by their names; NameOrder is the      *)
(* order Values() sorts them in.                                           *)
(***************************************************************************)
NameOrder == <<"ingress_http", "ingress_https">>

CacheNames == {NameOrder[i] : i \in DOMAIN NameOrder}

\* resource_names lists a request may carry ("HTTP" names no resource)
NameLists == {<<>>, <<"ingress_http">>, <<"HTTP">>}

Streams == {"s1"}

NoReq == [type_url |-> "", resource_names |-> <<>>, error_detail |-> FALSE, none |-> TRUE]

\* requests without error_detail: subscriptions and ACKs
Requests == [type_url : TypeURLs, resource_names : NameLists, error_detail : {FALSE},
             none : {FALSE}]

\* requests with error_detail set: the peer rejected an update (a NACK) of one
\* of the types the server serves
Nacks == [type_url : RegisteredTypes, resource_names : NameLists, error_detail : {TRUE},
          none : {FALSE}]

NoResp == [version_info |-> "", resources |-> <<>>, type_url |-> "", nonce |-> "", none |-> TRUE]

VARIABLES
    cache,      \* contents of each resource cache: a set of resource names
    condLast,   \* Cond.last of each resource cache: its version
    waiters,    \* Cond.waiters of each resource cache: registered channels, by stream
    pc,         \* position of each stream handler
    res,        \* the resource (type) a stream handler serves
    req,        \* the request a stream handler received
    last,       \* stream handler local: last version notified
    nonce,      \* stream0 local: nonce of the next response
    ch,         \* the stream handler's notification channel (capacity 1)
    ctxDone,    \* the stream's context is cancelled
    inbox,      \* requests written by the peer and not yet returned by Recv
    sent,       \* responses sent on the stream, in order
    err,        \* error returned by the stream handler
    fetched,    \* request and result of the latest unary Fetch
    tr,         \* the Translator: the event it is handling and its position
    gen,        \* for each resource cache, the event whose results it holds
    d,          \* the DAG: its maps of Kubernetes objects and its dag
    mu,         \* DAG.mu: the goroutine that holds it, "" when it is free
    rpc,        \* position of each goroutine that calls Recompute
    rb,         \* recompute's locals, per goroutine: the keys still to range
                \* over and the virtual hosts made so far
    built,      \* the maps d.dag was recomputed from
    visit,      \* the goroutine in Visit: position, its dag and the roots seen
    ops,        \* number of Insert and Remove calls made
    lastOp,     \* the latest Insert or Remove call and the maps before it
    isLeader,   \* the IsLeader channel is closed: this replica is elected
    leaderCase, \* the election goroutine still selects on the channel
    tc,         \* the Translator's ingresses by host and its VirtualHostCache
    sb,         \* the status builder: its object cache and what Build returned
    hr,         \* an HTTPRoute: its generation and its status, and the clock
    te,         \* the Translator's services and endpoints and the cluster and
                \* ClusterLoadAssignment caches computed from them
    hn,         \* a call of hashname: its arguments and its result
    so,         \* a list of routes handed to the sorter, and the sorted list
    eh          \* the EventHandler: its clock, its timers and what it has done

vars == <<cache, condLast, waiters, pc, res, req, last, nonce, ch, ctxDone,
          inbox, sent, err, fetched, tr, gen, d, mu, rpc, rb, built, visit, ops,
          lastOp, isLeader, leaderCase, eh, tc, sb, hr, te, hn, so>>

cacheVars == <<cache, condLast, waiters>>
streamVars == <<pc, res, req, last, nonce, ch, ctxDone, inbox, sent, err>>
xdsVars == <<cacheVars, streamVars, fetched>>

translatorVars == <<tr, gen, tc>>
statusVars == <<sb, hr, te, hn, so>>
leaderVars == <<isLeader, leaderCase, eh>>
dagVars == <<d, mu, rpc, rb, built, visit, ops, lastOp, leaderVars>>

\* the variables the xDS server and its peers leave alone
otherVars == <<translatorVars, dagVars>>

(***************************************************************************)
(* Helpers.                                                                *)
(***************************************************************************)
Range(q) == {q[i] : i \in DOMAIN q}

Last(q) == q[Len(q)]

Digits == <<"0", "1", "2", "3", "4", "5", "6", "7", "8", "9">>

\* strconv.FormatInt(int64(n), 10) for n >= 0
RECURSIVE FormatInt(_)
FormatInt(n) ==
    IF n < 10 THEN Digits[n + 1]
    ELSE FormatInt(n \div 10) \o Digits[(n % 10) + 1]

\* the number a decimal version_info or nonce denotes
ParseInt(str) == CHOOSE n \in 0..(MaxUpdates + MaxReqs + 10) : FormatInt(n) = str

(***************************************************************************)
(* The resource caches and their condition variable.                       *)
(***************************************************************************)
\* Values(): a copy of the cache's contents, sorted by name
Values(t) == SelectSeq(NameOrder, LAMBDA n : n \in cache[t])

\* Values(filter): the sorted contents whose names pass the filter
FilteredValues(t, filter) == SelectSeq(Values(t), LAMBDA n : filter[n])

\* a Register that appends ch to the waiters whatever last is
RegisterWaitOnly(t, s, l) ==
    /\ waiters' = [waiters EXCEPT ![t] = Append(@, s)]
    /\ ch' = ch

\* Cond.Register(ch, last): notify ch at once when the cache is ahead of
\* last, else append ch to the waiters
Register(t, s, l) ==
    IF l < condLast[t]
    THEN /\ ch' = [ch EXCEPT ![s] = Append(@, condLast[t])]
         /\ waiters' = waiters
    ELSE /\ waiters' = [waiters EXCEPT ![t] = Append(@, s)]
         /\ ch' = ch

\* Cond.Notify(): bump the version, send it to every waiter, drop the waiters
Notify(t) ==
    /\ condLast' = [condLast EXCEPT ![t] = @ + 1]
    /\ ch' = [s \in Streams |->
                IF s \in Range(waiters[t]) THEN Append(ch[s], condLast[t] + 1)
                ELSE ch[s]]
    /\ waiters' = [waiters EXCEPT ![t] = <<>>]

TotalUpdates == condLast[clusterType] + condLast[endpointType]
                + condLast[listenerType] + condLast[routeType]

\* the contents a cache of type t can hold: the route cache always holds the
\* two route configurations
Contents(t) == IF t = routeType THEN {CacheNames} ELSE SUBSET CacheNames

\* Update(resources): replace the contents, bump the version, signal waiters
Update(t, c) ==
    /\ TotalUpdates < MaxUpdates
    /\ cache' = [cache EXCEPT ![t] = c]
    /\ Notify(t)
    /\ UNCHANGED <<statusVars, otherVars, pc, res, req, last, nonce, ctxDone, inbox, sent, err, fetched>>

(***************************************************************************)
(* The peer of a stream.                                                   *)
(***************************************************************************)
\* requests the peer has written on stream s so far
ReqsWritten(s) == Len(inbox[s]) + (IF req[s].none THEN 0 ELSE 1)

\* the peer writes a DiscoveryRequest: the first one once the stream is open,
\* each further one after it has received a response to the one before, and
\* for the type of that response
PeerRequest(s, rq) ==
    /\ pc[s] \notin {"closed", "done"}
    /\ ~ctxDone[s]
    /\ ReqsWritten(s) < MaxReqs
    /\ ReqsWritten(s) <= Len(sent[s])
    /\ sent[s] # <<>> => rq.type_url = Last(sent[s]).type_url
    /\ inbox' = [inbox EXCEPT ![s] = Append(@, rq)]
    /\ UNCHANGED <<statusVars, otherVars, cacheVars, pc, res, req, last, nonce, ch, ctxDone, sent, err, fetched>>

\* the peer writes a DiscoveryRequest that carries error_detail
PeerNack(s, rq) ==
    /\ pc[s] \notin {"closed", "done"}
    /\ ~ctxDone[s]
    /\ ReqsWritten(s) < MaxReqs
    /\ ReqsWritten(s) <= Len(sent[s])
    /\ sent[s] # <<>> => rq.type_url = Last(sent[s]).type_url
    /\ inbox' = [inbox EXCEPT ![s] = Append(@, rq)]
    /\ UNCHANGED <<statusVars, otherVars, cacheVars, pc, res, req, last, nonce, ch, ctxDone, sent, err, fetched>>

\* the peer closes the stream or its context is cancelled
Cancel(s) ==
    /\ pc[s] \notin {"closed", "done"}
    /\ ~ctxDone[s]
    /\ ctxDone' = [ctxDone EXCEPT ![s] = TRUE]
    /\ UNCHANGED <<statusVars, otherVars, cacheVars, pc, res, req, last, nonce, ch, inbox, sent, err, fetched>>

(***************************************************************************)
(* The server of part_005: grpcServer.                                     *)
(***************************************************************************)
\* every name a filter can be asked about
AllNames == CacheNames \cup UNION {Range(l) : l \in NameLists}

\* a filter that matches everything whatever the names
toFilterAll(names) == [name \in AllNames |-> TRUE]

\* toFilter converts a slice of strings into a filter function; an empty
\* slice gives the filter that matches everything
toFilter(names) ==
    IF Len(names) = 0
    THEN [name \in AllNames |-> TRUE]
    ELSE LET m == Range(names) IN [name \in AllNames |-> name \in m]

\* toAny converts the resource's filtered Values to a slice of types.Any
toAny(t, filter) ==
    LET v == FilteredValues(t, filter)
    IN [i \in 1..Len(v) |-> [TypeUrl |-> t, Value |-> v[i]]]

\* a lookup that finds the cluster resource for a type_url that is not registered
LookupDefault(typeUrl) ==
    IF typeUrl \in RegisteredTypes
    THEN [ok |-> TRUE, r |-> typeUrl]
    ELSE [ok |-> TRUE, r |-> clusterType]

\* r, ok := s.resources[req.TypeUrl]
Lookup(typeUrl) ==
    IF typeUrl \in RegisteredTypes
    THEN [ok |-> TRUE, r |-> typeUrl]
    ELSE [ok |-> FALSE, r |-> ""]

\* the response fetch and stream build
Response(t, resources) ==
    [version_info |-> "0", resources |-> resources, type_url |-> t,
     nonce |-> "0", none |-> FALSE]

\* fetch handles a single DiscoveryRequest
fetch(rq) ==
    /\ fetched' =
         LET l == Lookup(rq.type_url)
         IN IF ~l.ok
            THEN [req |-> rq, resp |-> NoResp, err |-> "no resource registered"]
            ELSE [req |-> rq,
                  resp |-> Response(l.r, toAny(l.r, toFilter(rq.resource_names))),
                  err |-> ""]
    /\ UNCHANGED <<statusVars, otherVars, cacheVars, streamVars>>

\* StreamClusters, StreamEndpoints, StreamListeners, StreamRoutes: stream starts
\* with an empty channel and last = 0, and waits for the first request
Open(s) ==
    /\ pc[s] = "closed"
    /\ pc' = [pc EXCEPT ![s] = "recv"]
    /\ UNCHANGED <<statusVars, otherVars, cacheVars, res, req, last, nonce, ch, ctxDone, inbox, sent, err, fetched>>

\* a handler that returns an error when the request carries error_detail
streamRecvRejectNack(s) ==
    /\ pc[s] = "recv"
    /\ inbox[s] # <<>>
    /\ req' = [req EXCEPT ![s] = Head(inbox[s])]
    /\ inbox' = [inbox EXCEPT ![s] = Tail(@)]
    /\ LET l == Lookup(Head(inbox[s]).type_url)
       IN IF l.ok /\ ~Head(inbox[s]).error_detail
          THEN /\ res' = [res EXCEPT ![s] = l.r]
               /\ pc' = [pc EXCEPT ![s] = "register"]
               /\ err' = err
          ELSE /\ res' = res
               /\ pc' = [pc EXCEPT ![s] = "done"]
               /\ err' = [err EXCEPT ![s] = "no resource registered"]
    /\ UNCHANGED <<statusVars, otherVars, cacheVars, last, nonce, ch, ctxDone, sent, fetched>>

\* req, err := st.Recv() returns a request; the resource is looked up by its
\* type_url and the handler returns an error when none is registered; the
\* request's error_detail only goes to the log
streamRecv(s) ==
    /\ pc[s] = "recv"
    /\ inbox[s] # <<>>
    /\ req' = [req EXCEPT ![s] = Head(inbox[s])]
    /\ inbox' = [inbox EXCEPT ![s] = Tail(@)]
    /\ LET l == Lookup(Head(inbox[s]).type_url)
       IN IF l.ok
          THEN /\ res' = [res EXCEPT ![s] = l.r]
               /\ pc' = [pc EXCEPT ![s] = "register"]
               /\ err' = err
          ELSE /\ res' = res
               /\ pc' = [pc EXCEPT ![s] = "done"]
               /\ err' = [err EXCEPT ![s] = "no resource registered"]
    /\ UNCHANGED <<statusVars, otherVars, cacheVars, last, nonce, ch, ctxDone, sent, fetched>>

\* st.Recv() fails because the stream is gone
streamRecvErr(s) ==
    /\ pc[s] = "recv"
    /\ ctxDone[s]
    /\ pc' = [pc EXCEPT ![s] = "done"]
    /\ err' = [err EXCEPT ![s] = "recv"]
    /\ UNCHANGED <<statusVars, otherVars, cacheVars, res, req, last, nonce, ch, ctxDone, inbox, sent, fetched>>

\* a handler that registers for every version after 0 instead of after last
streamRegisterZero(s) ==
    /\ pc[s] = "register"
    /\ Register(res[s], s, 0)
    /\ pc' = [pc EXCEPT ![s] = "select"]
    /\ UNCHANGED <<statusVars, otherVars, cache, condLast, res, req, last, nonce, ctxDone, inbox, sent, err, fetched>>

\* streamwait: r.Register(ch, last)
streamRegister(s) ==
    /\ pc[s] = "register"
    /\ Register(res[s], s, last[s])
    /\ pc' = [pc EXCEPT ![s] = "select"]
    /\ UNCHANGED <<statusVars, otherVars, cache, condLast, res, req, last, nonce, ctxDone, inbox, sent, err, fetched>>

\* select: case last = <-ch
streamNotified(s) ==
    /\ pc[s] = "select"
    /\ ch[s] # <<>>
    /\ last' = [last EXCEPT ![s] = Head(ch[s])]
    /\ ch' = [ch EXCEPT ![s] = Tail(@)]
    /\ pc' = [pc EXCEPT ![s] = "values"]
    /\ UNCHANGED <<statusVars, otherVars, cacheVars, res, req, nonce, ctxDone, inbox, sent, err, fetched>>

\* select: case <-ctx.Done(): return ctx.Err()
streamDone(s) ==
    /\ pc[s] = "select"
    /\ ctxDone[s]
    /\ pc' = [pc EXCEPT ![s] = "done"]
    /\ err' = [err EXCEPT ![s] = "context canceled"]
    /\ UNCHANGED <<statusVars, otherVars, cacheVars, res, req, last, nonce, ch, ctxDone, inbox, sent, fetched>>

\* after the notification: toAny with the request's filter; no resources:
\* skip the update and continue streamwait; else st.Send the response (which
\* fails on a cancelled stream) and continue streamwait
streamSend(s) ==
    /\ pc[s] = "values"
    /\ LET resources == toAny(res[s], toFilter(req[s].resource_names))
       IN IF Len(resources) = 0
          THEN /\ pc' = [pc EXCEPT ![s] = "register"]
               /\ UNCHANGED <<statusVars, sent, err>>
          ELSE IF ctxDone[s]
          THEN /\ pc' = [pc EXCEPT ![s] = "done"]
               /\ err' = [err EXCEPT ![s] = "send"]
               /\ sent' = sent
          ELSE /\ pc' = [pc EXCEPT ![s] = "register"]
               /\ sent' = [sent EXCEPT ![s] = Append(@, Response(res[s], resources))]
               /\ err' = err
    /\ UNCHANGED <<statusVars, otherVars, cacheVars, res, req, last, nonce, ch, ctxDone, inbox, fetched>>

(***************************************************************************)
(* The server of part_006: CDS, EDS, LDS, RDS.                             *)
(***************************************************************************)
\* Resources(): the whole contents of the cache as a slice of types.Any; for
\* RDS the two route configurations
Resources(t) ==
    LET v == IF t = routeType THEN NameOrder ELSE Values(t)
    IN [i \in 1..Len(v) |-> [TypeUrl |-> t, Value |-> v[i]]]

\* fetch returns a DiscoveryResponse for the resourcer, version and nonce
fetch0(t, version, n) ==
    [version_info |-> FormatInt(version), resources |-> Resources(t),
     type_url |-> t, nonce |-> FormatInt(n), none |-> FALSE]

\* FetchClusters, FetchEndpoints, FetchListeners, FetchRoutes: fetch(r, 0, 0),
\* whatever the request says
Fetch0(t, rq) ==
    /\ rq.type_url = t
    /\ fetched' = [req |-> rq, resp |-> fetch0(t, 0, 0), err |-> ""]
    /\ UNCHANGED <<statusVars, otherVars, cacheVars, streamVars>>

\* StreamClusters, StreamEndpoints, StreamListeners, StreamRoutes: stream0 of
\* the service's own resourcer, with last = 0 and nonce = 0
Open0(s, t) ==
    /\ pc[s] = "closed"
    /\ pc' = [pc EXCEPT ![s] = "register"]
    /\ res' = [res EXCEPT ![s] = t]
    /\ UNCHANGED <<statusVars, otherVars, cacheVars, req, last, nonce, ch, ctxDone, inbox, sent, err, fetched>>

\* n.Register(ch, last)
stream0Register(s) ==
    /\ pc[s] = "register"
    /\ Register(res[s], s, last[s])
    /\ pc' = [pc EXCEPT ![s] = "select"]
    /\ UNCHANGED <<statusVars, otherVars, cache, condLast, res, req, last, nonce, ctxDone, inbox, sent, err, fetched>>

\* select: case last = <-ch
stream0Notified(s) ==
    /\ pc[s] = "select"
    /\ ch[s] # <<>>
    /\ last' = [last EXCEPT ![s] = Head(ch[s])]
    /\ ch' = [ch EXCEPT ![s] = Tail(@)]
    /\ pc' = [pc EXCEPT ![s] = "values"]
    /\ UNCHANGED <<statusVars, otherVars, cacheVars, res, req, nonce, ctxDone, inbox, sent, err, fetched>>

\* select: case <-ctx.Done(): return ctx.Err()
stream0Done(s) ==
    /\ pc[s] = "select"
    /\ ctxDone[s]
    /\ pc' = [pc EXCEPT ![s] = "done"]
    /\ err' = [err EXCEPT ![s] = "context canceled"]
    /\ UNCHANGED <<statusVars, otherVars, cacheVars, res, req, last, nonce, ch, ctxDone, inbox, sent, fetched>>

\* out := fetch(n, last, nonce); st.Send(out); nonce++
stream0Send(s) ==
    /\ pc[s] = "values"
    /\ IF ctxDone[s]
       THEN /\ pc' = [pc EXCEPT ![s] = "done"]
            /\ err' = [err EXCEPT ![s] = "send"]
            /\ UNCHANGED <<statusVars, sent, nonce>>
       ELSE /\ pc' = [pc EXCEPT ![s] = "register"]
            /\ sent' = [sent EXCEPT ![s] = Append(@, fetch0(res[s], last[s], nonce[s]))]
            /\ nonce' = [nonce EXCEPT ![s] = @ + 1]
            /\ err' = err
    /\ UNCHANGED <<statusVars, otherVars, cacheVars, res, req, last, ch, ctxDone, inbox, fetched>>

(***************************************************************************)
(* The Translator (internal/annotation/annotations_test.go lines 519-697): *)
(* it handles one Kubernetes event at a time and recomputes the resource   *)
(* caches the event affects, one cache after the other, while the stream   *)
(* handlers run.  The recompute* methods of the caches are not in the      *)
(* sources: each is modelled as the cache's Update of the specification    *)
(* (replace, bump the version, signal the waiters).  The virtual host      *)
(* cache is filled by recomputevhost and signalled by the Translator's     *)
(* deferred Notify.                                                        *)
(***************************************************************************)
\* values of the kubernetes.io/ingress.class annotation ("" is no annotation)
IngressClasses == {"", "contour", "nginx"}

Idle == [kind |-> "idle", step |-> 0, id |-> 0, want |-> {}, ep |-> FALSE]

\* the resource caches the event in hand recomputes
Touched(b) ==
    CASE b.kind = "service" -> IF b.ep THEN {endpointType, clusterType} ELSE {clusterType}
      [] b.kind = "ingress" -> {listenerType, routeType}
      [] OTHER -> {}

\* the cache of type t takes the results of the event in hand
Recomputed(t) ==
    /\ cache' = [cache EXCEPT ![t] = IF t = routeType THEN CacheNames ELSE tr.want]
    /\ gen' = [gen EXCEPT ![t] = tr.id]

\* OnAdd(*v1.Service): t.cache.OnAdd(obj), then addService finds the
\* service's endpoints in t.cache.endpoints (ep) or not
OnAddService(c, ep) ==
    /\ tr.kind = "idle"
    /\ tr.id < MaxEvents
    /\ tr' = [kind |-> "service", step |-> IF ep THEN 1 ELSE 2, id |-> tr.id + 1,
              want |-> c, ep |-> ep]
    /\ UNCHANGED <<statusVars, dagVars, tc, xdsVars, gen>>

\* addService: t.recomputeClusterLoadAssignment(nil, ep)
addServiceEndpoints ==
    /\ tr.kind = "service"
    /\ tr.step = 1
    /\ Recomputed(endpointType)
    /\ Notify(endpointType)
    /\ tr' = [tr EXCEPT !.step = 2]
    /\ UNCHANGED <<statusVars, dagVars, tc, pc, res, req, last, nonce, ctxDone, inbox, sent, err, fetched>>

\* addService: t.recomputeService(nil, svc), and the handler returns
addServiceCluster ==
    /\ tr.kind = "service"
    /\ tr.step = 2
    /\ Recomputed(clusterType)
    /\ Notify(clusterType)
    /\ tr' = [Idle EXCEPT !.id = tr.id]
    /\ UNCHANGED <<statusVars, dagVars, tc, pc, res, req, last, nonce, ctxDone, inbox, sent, err, fetched>>

\* OnAdd(*v1beta1.Ingress): t.cache.OnAdd(obj), then addIngress returns at
\* once for an ingress of another class
OnAddIngress(c, class) ==
    /\ tr.kind = "idle"
    /\ tr.id < MaxEvents
    /\ tr' = IF class # "" /\ class # "contour"
             THEN [Idle EXCEPT !.id = tr.id + 1]
             ELSE [kind |-> "ingress", step |-> 1, id |-> tr.id + 1, want |-> c,
                   ep |-> FALSE]
    /\ UNCHANGED <<statusVars, dagVars, tc, xdsVars, gen>>

\* addIngress: t.recomputeListeners(t.cache.ingresses, t.cache.secrets)
addIngressListeners ==
    /\ tr.kind = "ingress"
    /\ tr.step = 1
    /\ Recomputed(listenerType)
    /\ Notify(listenerType)
    /\ tr' = [tr EXCEPT !.step = 2]
    /\ UNCHANGED <<statusVars, dagVars, tc, pc, res, req, last, nonce, ctxDone, inbox, sent, err, fetched>>

\* addIngress: t.recomputevhost for the default backend and for every rule
addIngressVhosts ==
    /\ tr.kind = "ingress"
    /\ tr.step = 2
    /\ Recomputed(routeType)
    /\ tr' = [tr EXCEPT !.step = 3]
    /\ UNCHANGED <<statusVars, dagVars, tc, condLast, waiters, streamVars, fetched>>

\* addIngress returns: the deferred t.VirtualHostCache.Notify()
addIngressNotify ==
    /\ tr.kind = "ingress"
    /\ tr.step = 3
    /\ Notify(routeType)
    /\ tr' = [Idle EXCEPT !.id = tr.id]
    /\ UNCHANGED <<statusVars, dagVars, tc, cache, gen, pc, res, req, last, nonce, ctxDone, inbox, sent, err, fetched>>

(***************************************************************************)
(* The DAG of src/unnamed/part_007: a cache of Kubernetes objects, keyed   *)
(* by kind and name (all objects are in one namespace), and the graph      *)
(* recomputed from it.  A Go map is a function; ranging over a map visits  *)
(* its keys in an order the runtime picks, which is an input of recompute. *)
(***************************************************************************)
\* f with key k set to v: m[k] = v
Put(f, k, v) == [x \in DOMAIN f \cup {k} |-> IF x = k THEN v ELSE f[x]]

\* f without key k: delete(m, k)
Delete(f, k) == [x \in DOMAIN f \ {k} |-> f[x]]

EmptyMap == [x \in {} |-> x]

\* intstr.IntOrString: a service port given by number or by name
FromInt(n) == [Type |-> "Int", IntVal |-> n, StrVal |-> ""]

FromString(str) == [Type |-> "String", IntVal |-> 0, StrVal |-> str]

\* the port numbers of the model
PortNumbers == {80, 443, 8080}

\* IntOrString.IntValue: the number, or the name parsed as a number, 0 when
\* it is none
IntValue(p) ==
    IF p.Type = "String"
    THEN IF \E n \in PortNumbers : FormatInt(n) = p.StrVal
         THEN CHOOSE n \in PortNumbers : FormatInt(n) = p.StrVal
         ELSE 0
    ELSE p.IntVal

\* IntOrString.String: the name, or the number in decimal
String(p) == IF p.Type = "String" THEN p.StrVal ELSE FormatInt(p.IntVal)

\* a nil *v1beta1.IngressBackend
NoBackend == [none |-> TRUE, ServiceName |-> "", ServicePort |-> FromInt(0)]

Backend(name, port) == [none |-> FALSE, ServiceName |-> name, ServicePort |-> port]

svcKuard == [kind |-> "Service", name |-> "kuard",
             ports |-> <<[Port |-> 8080, Name |-> "http"]>>]

secretTLS == [kind |-> "Secret", name |-> "secret"]

\* ingress a: h/ -> kuard:8080
ingA == [kind |-> "Ingress", name |-> "a", annotations |-> EmptyMap, backend |-> NoBackend,
         tls |-> <<>>,
         rules |-> <<[host |-> "h", path |-> "/",
                      backend |-> Backend("kuard", FromInt(8080))]>>]

\* a later version of ingress a: h -> kuard:http, the path left empty
ingA2 == [ingA EXCEPT !.rules = <<[host |-> "h", path |-> "",
                                   backend |-> Backend("kuard", FromString("http"))]>>]

\* ingress b: a route for the same host and path as a, to a service that is
\* not there
ingB == [kind |-> "Ingress", name |-> "b", annotations |-> EmptyMap, backend |-> NoBackend,
         tls |-> <<>>,
         rules |-> <<[host |-> "h", path |-> "/",
                      backend |-> Backend("nginx", FromInt(80))]>>]

\* ingress c: a default backend, TLS for host h and a rule without a host;
\* no port 80 routes
ingC == [kind |-> "Ingress", name |-> "c",
         annotations |-> Put(EmptyMap, "kubernetes.io/ingress.allow-http", "false"),
         backend |-> Backend("kuard", FromString("http")),
         tls |-> <<[SecretName |-> "secret", Hosts |-> <<"h">>]>>,
         rules |-> <<[host |-> "", path |-> "/c",
                      backend |-> Backend("kuard", FromString("8080"))]>>]

\* ingress e: annotated as annotations.md has it, kubernetes.io/allow-http
ingE == [kind |-> "Ingress", name |-> "e",
         annotations |-> Put(EmptyMap, "kubernetes.io/allow-http", "false"),
         backend |-> NoBackend, tls |-> <<>>,
         rules |-> <<[host |-> "h", path |-> "/e",
                      backend |-> Backend("kuard", FromInt(8080))]>>]

\* a root ingressroute for host h; its route lists two services, and there
\* is no service nginx
irRoot == [kind |-> "IngressRoute", name |-> "r",
           virtualhost |-> [none |-> FALSE, Fqdn |-> "h", tls |-> "secret"],
           routes |-> <<[Match |-> "",
                         Services |-> <<[Name |-> "kuard", Port |-> 8080],
                                        [Name |-> "nginx", Port |-> 80]>>]>>]

\* a delegate ingressroute: no virtualhost
irDelegate == [kind |-> "IngressRoute", name |-> "d",
               virtualhost |-> [none |-> TRUE, Fqdn |-> "", tls |-> ""],
               routes |-> <<[Match |-> "/d", Services |-> <<[Name |-> "kuard", Port |-> 8080]>>]>>]

\* an object of a kind the DAG takes no interest in
endpointsKuard == [kind |-> "Endpoints", name |-> "kuard"]

Objects == {svcKuard, secretTLS, ingA, ingA2, ingB, ingC, ingE, irRoot, irDelegate,
            endpointsKuard}

\* cache.DeletedFinalStateUnknown: the tombstone of an object
Tombstone(obj) == [kind |-> "DeletedFinalStateUnknown", Obj |-> obj]

\* the zero DAG: nil maps and a nil dag
NilDag == [none |-> TRUE, roots |-> EmptyMap]

ZeroDAG == [ingresses |-> EmptyMap, ingressroutes |-> EmptyMap, secrets |-> EmptyMap,
            services |-> EmptyMap, dag |-> NilDag]

\* an insert that leaves an object already stored under the name in place
insertIfAbsent(c, obj) ==
    CASE obj.kind = "Secret" /\ obj.name \notin DOMAIN c.secrets ->
             [c EXCEPT !.secrets = Put(@, obj.name, obj)]
      [] obj.kind = "Service" /\ obj.name \notin DOMAIN c.services ->
             [c EXCEPT !.services = Put(@, obj.name, obj)]
      [] obj.kind = "Ingress" /\ obj.name \notin DOMAIN c.ingresses ->
             [c EXCEPT !.ingresses = Put(@, obj.name, obj)]
      [] obj.kind = "IngressRoute" /\ obj.name \notin DOMAIN c.ingressroutes ->
             [c EXCEPT !.ingressroutes = Put(@, obj.name, obj)]
      [] OTHER -> c

\* an insert that keeps an ingress only when a service is already known
insertResolved(c, obj) ==
    CASE obj.kind = "Secret" -> [c EXCEPT !.secrets = Put(@, obj.name, obj)]
      [] obj.kind = "Service" -> [c EXCEPT !.services = Put(@, obj.name, obj)]
      [] obj.kind = "Ingress" /\ c.services # EmptyMap ->
             [c EXCEPT !.ingresses = Put(@, obj.name, obj)]
      [] obj.kind = "IngressRoute" -> [c EXCEPT !.ingressroutes = Put(@, obj.name, obj)]
      [] OTHER -> c

\* the body of Insert: the object goes into the map of its kind, over any
\* object of the same name
insert(c, obj) ==
    CASE obj.kind = "Secret" -> [c EXCEPT !.secrets = Put(@, obj.name, obj)]
      [] obj.kind = "Service" -> [c EXCEPT !.services = Put(@, obj.name, obj)]
      [] obj.kind = "Ingress" -> [c EXCEPT !.ingresses = Put(@, obj.name, obj)]
      [] obj.kind = "IngressRoute" -> [c EXCEPT !.ingressroutes = Put(@, obj.name, obj)]
      [] OTHER -> c

\* the body of remove: the object's name is deleted from the map of its kind
remove(c, obj) ==
    CASE obj.kind = "Secret" -> [c EXCEPT !.secrets = Delete(@, obj.name)]
      [] obj.kind = "Service" -> [c EXCEPT !.services = Delete(@, obj.name)]
      [] obj.kind = "Ingress" -> [c EXCEPT !.ingresses = Delete(@, obj.name)]
      [] obj.kind = "IngressRoute" -> [c EXCEPT !.ingressroutes = Delete(@, obj.name)]
      [] OTHER -> c

\* Remove's dispatch: a tombstone is unwrapped
Unwrap(obj) == IF obj.kind = "DeletedFinalStateUnknown" THEN obj.Obj ELSE obj

\* httpAllowed(ing): should port 80 routes be made for this ingress
httpAllowed(ing) ==
    ~(/\ "kubernetes.io/ingress.allow-http" \in DOMAIN ing.annotations
      /\ ing.annotations["kubernetes.io/ingress.allow-http"] = "false")

\* vhost(host, port): the memoised virtual host, made when it is not there
vhost(vh, host, port) ==
    IF <<host, port>> \in DOMAIN vh
    THEN vh
    ELSE Put(vh, <<host, port>>,
             [Port |-> port, host |-> host, routes |-> EmptyMap, secrets |-> EmptyMap])

\* vhost(host, port).routes[r.path] = r
setRoute(vh, host, port, r) ==
    [vhost(vh, host, port) EXCEPT ![<<host, port>>].routes = Put(@, r.path, r)]

\* vhost(host, port).addSecret(sec)
addSecret(vh, host, port, sec) ==
    [vhost(vh, host, port) EXCEPT ![<<host, port>>].secrets = Put(@, sec.name, sec)]

\* the services of an ingress route: service(m), added when one of its ports
\* matches the backend's port by number or by name
backendServices(c, backend) ==
    IF backend.ServiceName \notin DOMAIN c.services
    THEN EmptyMap
    ELSE LET svc == c.services[backend.ServiceName]
         IN IF \E i \in DOMAIN svc.ports :
                   \/ IntValue(backend.ServicePort) = svc.ports[i].Port
                   \/ String(backend.ServicePort) = svc.ports[i].Name
            THEN Put(EmptyMap, svc.name, svc)
            ELSE EmptyMap

\* for _, host := range tls.Hosts: vhost(host, 443).addSecret(sec)
RECURSIVE attachHosts(_, _, _)
attachHosts(vh, sec, hosts) ==
    IF hosts = <<>> THEN vh
    ELSE attachHosts(addSecret(vh, Head(hosts), 443, sec), sec, Tail(hosts))

\* for _, tls := range ing.Spec.TLS: attach the secret, when it is cached
RECURSIVE attachTLS(_, _, _)
attachTLS(c, vh, tls) ==
    IF tls = <<>> THEN vh
    ELSE LET t == Head(tls)
             v == IF t.SecretName \in DOMAIN c.secrets
                  THEN attachHosts(vh, c.secrets[t.SecretName], t.Hosts)
                  ELSE vh
         IN attachTLS(c, v, Tail(tls))

\* for _, rule := range ing.Spec.Rules: the route goes to the port 80 virtual
\* host when http is allowed, and to the port 443 one when that exists
RECURSIVE addRules(_, _, _, _)
addRules(c, vh, ing, rules) ==
    IF rules = <<>> THEN vh
    ELSE LET rule == Head(rules)
             host == IF rule.host = "" THEN "*" ELSE rule.host
             path == IF rule.path = "" THEN "/" ELSE rule.path
             r == [path |-> path, object |-> ing,
                   services |-> backendServices(c, rule.backend),
                   backend |-> rule.backend]
             v1 == IF httpAllowed(ing) THEN setRoute(vh, host, 80, r) ELSE vh
             v2 == IF <<host, 443>> \in DOMAIN v1 /\ host # "*"
                   THEN setRoute(v1, host, 443, r)
                   ELSE v1
         IN addRules(c, v2, ing, Tail(rules))

\* one pass of the loop over d.ingresses
recomputeIngress(c, vh, ing) ==
    LET r == [path |-> "/", object |-> ing,
              services |-> backendServices(c, ing.backend), backend |-> ing.backend]
        v1 == IF ~ing.backend.none /\ httpAllowed(ing)
              THEN setRoute(vh, "*", 80, r)
              ELSE vh
    IN addRules(c, attachTLS(c, v1, ing.tls), ing, ing.rules)

\* the services of an ingressroute route
RECURSIVE routeServices(_, _, _)
routeServices(c, acc, svcs) ==
    IF svcs = <<>> THEN acc
    ELSE LET s == Head(svcs)
             a == IF /\ s.Name \in DOMAIN c.services
                     /\ \E i \in DOMAIN c.services[s.Name].ports :
                           s.Port = c.services[s.Name].ports[i].Port
                  THEN Put(acc, s.Name, c.services[s.Name])
                  ELSE acc
         IN routeServices(c, a, Tail(svcs))

\* for _, route := range ir.Spec.Routes
RECURSIVE addRoutes(_, _, _, _)
addRoutes(c, vh, ir, routes) ==
    IF routes = <<>> THEN vh
    ELSE LET route == Head(routes)
             path == IF route.Match = "" THEN "/" ELSE route.Match
             r == [path |-> path, object |-> ir,
                   services |-> routeServices(c, EmptyMap, route.Services),
                   backend |-> NoBackend]
         IN addRoutes(c, setRoute(vh, ir.virtualhost.Fqdn, 80, r), ir, Tail(routes))

\* one pass of the loop over d.ingressroutes that leaves out an ingressroute
\* that names a service that is not there
recomputeIngressRouteResolved(c, vh, ir) ==
    IF ir.virtualhost.none
       \/ \E i \in DOMAIN ir.routes : \E j \in DOMAIN ir.routes[i].Services :
             ir.routes[i].Services[j].Name \notin DOMAIN c.services
    THEN vh
    ELSE LET tls == ir.virtualhost.tls
             v1 == IF tls # "" /\ tls \in DOMAIN c.secrets
                   THEN addSecret(vh, ir.virtualhost.Fqdn, 443, c.secrets[tls])
                   ELSE vh
         IN addRoutes(c, v1, ir, ir.routes)

\* one pass of the loop over d.ingressroutes
recomputeIngressRoute(c, vh, ir) ==
    IF ir.virtualhost.none
    THEN vh
    ELSE LET tls == ir.virtualhost.tls
             v1 == IF tls # "" /\ tls \in DOMAIN c.secrets
                   THEN addSecret(vh, ir.virtualhost.Fqdn, 443, c.secrets[tls])
                   ELSE vh
         IN addRoutes(c, v1, ir, ir.routes)

\* the orders a range over the map f can take
Orders(f) == {q \in [1..Cardinality(DOMAIN f) -> DOMAIN f] : Range(q) = DOMAIN f}

RECURSIVE rangeIngresses(_, _, _)
rangeIngresses(c, vh, order) ==
    IF order = <<>> THEN vh
    ELSE rangeIngresses(c, recomputeIngress(c, vh, c.ingresses[Head(order)]), Tail(order))

RECURSIVE rangeIngressRoutes(_, _, _)
rangeIngressRoutes(c, vh, order) ==
    IF order = <<>> THEN vh
    ELSE rangeIngressRoutes(c, recomputeIngressRoute(c, vh, c.ingressroutes[Head(order)]),
                            Tail(order))

\* recompute builds a new dag: its roots are the virtual hosts made while
\* ranging over the ingresses in order io and the ingressroutes in order ro
recompute(c, io, ro) ==
    [none |-> FALSE,
     roots |-> rangeIngressRoutes(c, rangeIngresses(c, EmptyMap, io), ro)]

\* every dag recompute can return for the cache c
Builds(c) == {recompute(c, io, ro) : io \in Orders(c.ingresses), ro \in Orders(c.ingressroutes)}

\* the goroutines that call Recompute: the handler of Kubernetes events and
\* the one that waits for the election
Rebuilders == {"handler", "leader"}

NoRecompute == [io |-> <<>>, ro |-> <<>>, vh |-> EmptyMap]

NoVisit == [pc |-> "idle", dag |-> NilDag, built |-> EmptyMap, seen |-> EmptyMap]

\* the maps of the DAG c
Maps(c) == [ingresses |-> c.ingresses, ingressroutes |-> c.ingressroutes,
            secrets |-> c.secrets, services |-> c.services]

NoOp == [op |-> "", obj |-> endpointsKuard, before |-> Maps(ZeroDAG)]

\* a goroutine that has dereferenced a nil dag has brought the process down
Running == visit.pc # "panic"

\* Insert(obj), by the handler of Kubernetes events, under d.mu
Insert(obj) ==
    /\ Running
    /\ rpc["handler"] = "idle"
    /\ mu = ""
    /\ ops < MaxOps
    /\ ops' = ops + 1
    /\ d' = insert(d, obj)
    /\ lastOp' = [op |-> "Insert", obj |-> obj, before |-> Maps(d)]
    /\ UNCHANGED <<statusVars, xdsVars, translatorVars, mu, rpc, rb, built, visit, leaderVars>>

\* Remove(obj), by the handler of Kubernetes events: remove under d.mu, of
\* the tombstoned object when obj is a tombstone
Remove(obj) ==
    /\ Running
    /\ rpc["handler"] = "idle"
    /\ mu = ""
    /\ ops < MaxOps
    /\ ops' = ops + 1
    /\ d' = remove(d, Unwrap(obj))
    /\ lastOp' = [op |-> "Remove", obj |-> Unwrap(obj), before |-> Maps(d)]
    /\ UNCHANGED <<statusVars, xdsVars, translatorVars, mu, rpc, rb, built, visit, leaderVars>>

\* a Recompute that does not wait for d.mu
RecomputeNoLock(g) ==
    /\ Running
    /\ rpc[g] = IF g = "leader" THEN "requested" ELSE "idle"
    /\ mu' = g
    /\ rpc' = [rpc EXCEPT ![g] = "recompute"]
    /\ \E io \in Orders(d.ingresses) : \E ro \in Orders(d.ingressroutes) :
          rb' = [rb EXCEPT ![g] = [io |-> io, ro |-> ro, vh |-> EmptyMap]]
    /\ UNCHANGED <<statusVars, xdsVars, translatorVars, d, built, visit, ops, lastOp, leaderVars>>

\* Recompute: d.mu.Lock(), and recompute starts to range over the ingresses
\* and the ingressroutes, each in some order
RecomputeLock(g) ==
    /\ Running
    /\ rpc[g] = IF g = "leader" THEN "requested" ELSE "idle"
    /\ mu = ""
    /\ mu' = g
    /\ rpc' = [rpc EXCEPT ![g] = "recompute"]
    /\ \E io \in Orders(d.ingresses) : \E ro \in Orders(d.ingressroutes) :
          rb' = [rb EXCEPT ![g] = [io |-> io, ro |-> ro, vh |-> EmptyMap]]
    /\ UNCHANGED <<statusVars, xdsVars, translatorVars, d, built, visit, ops, lastOp, leaderVars>>

\* recompute: one pass of the loop over the ingresses, or, after it, of the
\* loop over the ingressroutes
RecomputeStep(g) ==
    /\ Running
    /\ rpc[g] = "recompute"
    /\ \/ /\ rb[g].io # <<>>
          /\ rb' = [rb EXCEPT ![g].io = Tail(@),
                              ![g].vh = recomputeIngress(d, @, d.ingresses[Head(rb[g].io)])]
       \/ /\ rb[g].io = <<>>
          /\ rb[g].ro # <<>>
          /\ rb' = [rb EXCEPT ![g].ro = Tail(@),
                              ![g].vh = recomputeIngressRoute(d, @,
                                            d.ingressroutes[Head(rb[g].ro)])]
    /\ UNCHANGED <<statusVars, xdsVars, translatorVars, d, mu, rpc, built, visit, ops, lastOp, leaderVars>>

\* recompute returns the new dag, Recompute stores it in d.dag and unlocks
RecomputeUnlock(g) ==
    /\ Running
    /\ rpc[g] = "recompute"
    /\ rb[g].io = <<>>
    /\ rb[g].ro = <<>>
    /\ d' = [d EXCEPT !.dag = [none |-> FALSE, roots |-> rb[g].vh]]
    /\ built' = Maps(d)
    /\ mu' = ""
    /\ rpc' = [rpc EXCEPT ![g] = "idle"]
    /\ rb' = [rb EXCEPT ![g] = NoRecompute]
    /\ UNCHANGED <<statusVars, xdsVars, translatorVars, visit, ops, lastOp, leaderVars>>

\* Visit: under d.mu, dag := d.dag; ranging over the roots of a nil dag is a
\* nil pointer dereference
VisitLock ==
    /\ Running
    /\ visit.pc \in {"idle", "done"}
    /\ mu = ""
    /\ visit' = IF d.dag.none
                THEN [NoVisit EXCEPT !.pc = "panic"]
                ELSE [pc |-> "visiting", dag |-> d.dag, built |-> built, seen |-> EmptyMap]
    /\ UNCHANGED <<statusVars, xdsVars, translatorVars, d, mu, rpc, rb, built, ops, lastOp, leaderVars>>

\* a Visit that ranges over the roots of d.dag instead of its own dag
VisitRootLive ==
    /\ Running
    /\ visit.pc = "visiting"
    /\ \E hp \in DOMAIN d.dag.roots \ DOMAIN visit.seen :
          visit' = [visit EXCEPT !.seen = Put(@, hp, d.dag.roots[hp])]
    /\ UNCHANGED <<statusVars, xdsVars, translatorVars, d, mu, rpc, rb, built, ops, lastOp, leaderVars>>

\* Visit: f(r) for the next root r of dag
VisitRoot ==
    /\ Running
    /\ visit.pc = "visiting"
    /\ \E hp \in DOMAIN visit.dag.roots \ DOMAIN visit.seen :
          visit' = [visit EXCEPT !.seen = Put(@, hp, visit.dag.roots[hp])]
    /\ UNCHANGED <<statusVars, xdsVars, translatorVars, d, mu, rpc, rb, built, ops, lastOp, leaderVars>>

\* Visit returns when f has been called for every root
VisitReturn ==
    /\ Running
    /\ visit.pc = "visiting"
    /\ DOMAIN visit.seen = DOMAIN visit.dag.roots
    /\ visit' = [visit EXCEPT !.pc = "done"]
    /\ UNCHANGED <<statusVars, xdsVars, translatorVars, d, mu, rpc, rb, built, ops, lastOp, leaderVars>>

\* the leader elector closes the IsLeader channel: this replica is elected
Elected ==
    /\ Running
    /\ ~isLeader
    /\ isLeader' = TRUE
    /\ UNCHANGED <<statusVars, xdsVars, translatorVars, d, mu, rpc, rb, built, visit, ops, lastOp, leaderCase, eh>>

\* an election goroutine that leaves the case enabled: leader = nil is left
\* out
LeaderUpdateNowAgain ==
    /\ Running
    /\ isLeader
    /\ leaderCase
    /\ rpc["leader"] = "idle"
    /\ rpc' = [rpc EXCEPT !["leader"] = "requested"]
    /\ UNCHANGED <<statusVars, xdsVars, translatorVars, d, mu, rb, built, visit, ops, lastOp, isLeader, leaderCase, eh>>

\* an election goroutine that calls UpdateNow only once a Kubernetes event
\* has come in
LeaderUpdateOnEvent ==
    /\ Running
    /\ isLeader
    /\ leaderCase
    /\ lastOp.op # ""
    /\ leaderCase' = FALSE
    /\ rpc' = [rpc EXCEPT !["leader"] = "requested"]
    /\ UNCHANGED <<statusVars, xdsVars, translatorVars, d, mu, rb, built, visit, ops, lastOp, isLeader, eh>>

\* the election goroutine: case <-leader: eventHandler.UpdateNow(), and the
\* case is disabled (leader = nil)
LeaderUpdateNow ==
    /\ Running
    /\ isLeader
    /\ leaderCase
    /\ leaderCase' = FALSE
    /\ rpc' = [rpc EXCEPT !["leader"] = "requested"]
    /\ UNCHANGED <<statusVars, xdsVars, translatorVars, d, mu, rb, built, visit, ops, lastOp, isLeader, eh>>

(***************************************************************************)
(* The virtual hosts of the Translator (annotations_test.go lines 621-680   *)
(* and 732-817): the ingresses translatorCache keeps by host, and the       *)
(* virtual hosts Translator.addIngress and removeIngress recompute from     *)
(* them into the VirtualHostCache.                                          *)
(***************************************************************************)
\* ingress d: a rule without a host, -> kuard:8080, and no default backend
ingD == [kind |-> "Ingress", name |-> "d", annotations |-> EmptyMap, backend |-> NoBackend,
         tls |-> <<>>,
         rules |-> <<[host |-> "", path |-> "/",
                      backend |-> Backend("kuard", FromInt(8080))]>>]

\* ingress n: a route for host h, for the ingress controller of class nginx
ingN == [kind |-> "Ingress", name |-> "n",
         annotations |-> Put(EmptyMap, "kubernetes.io/ingress.class", "nginx"),
         backend |-> NoBackend, tls |-> <<>>,
         rules |-> <<[host |-> "h", path |-> "/n",
                      backend |-> Backend("nginx", FromInt(80))]>>]

Ingresses == {ingA, ingB, ingC, ingD, ingN}

\* class, ok := i.Annotations["kubernetes.io/ingress.class"];
\* ok && class != "contour": the ingress is for another controller
otherClass(obj) ==
    /\ "kubernetes.io/ingress.class" \in DOMAIN obj.annotations
    /\ obj.annotations["kubernetes.io/ingress.class"] # "contour"

\* host := rule.Host; if host == "" { host = "*" }
HostOf(rule) == IF rule.host = "" THEN "*" ELSE rule.host

Get(f, k) == IF k \in DOMAIN f THEN f[k] ELSE EmptyMap

\* translatorCache.OnAdd(*v1beta1.Ingress)'s loop over the rules i..Len(rules)
RECURSIVE addRuleHosts(_, _, _)
addRuleHosts(vhosts, obj, i) ==
    IF i > Len(obj.rules) THEN vhosts
    ELSE LET host == HostOf(obj.rules[i])
         IN addRuleHosts(Put(vhosts, host, Put(Get(vhosts, host), obj.name, obj)),
                         obj, i + 1)

\* translatorCache.OnAdd(*v1beta1.Ingress)
cacheOnAdd(c, obj) ==
    LET v == IF obj.backend.none THEN c.vhosts
             ELSE Put(c.vhosts, "*", Put(Get(c.vhosts, "*"), obj.name, obj))
    IN [c EXCEPT !.ingresses = Put(@, obj.name, obj),
                 !.vhosts = addRuleHosts(v, obj, 1)]

\* delete(t.vhosts[host], md), a no-op on a missing map
DeleteIn(vhosts, host, name) ==
    IF host \in DOMAIN vhosts THEN Put(vhosts, host, Delete(vhosts[host], name))
    ELSE vhosts

\* if len(t.vhosts[host]) == 0 { delete(t.vhosts, host) }
DropEmpty(vhosts, host) ==
    IF Get(vhosts, host) = EmptyMap THEN Delete(vhosts, host) ELSE vhosts

\* translatorCache.OnDelete(*v1beta1.Ingress)'s loop over the rules
RECURSIVE deleteRuleHosts(_, _, _)
deleteRuleHosts(vhosts, obj, i) ==
    IF i > Len(obj.rules) THEN vhosts
    ELSE LET host == HostOf(obj.rules[i])
         IN deleteRuleHosts(DropEmpty(DeleteIn(vhosts, host, obj.name), host),
                            obj, i + 1)

\* translatorCache.OnDelete(*v1beta1.Ingress)
cacheOnDelete(c, obj) ==
    [c EXCEPT !.ingresses = Delete(@, obj.name),
              !.vhosts = DropEmpty(deleteRuleHosts(DeleteIn(@, "*", obj.name), obj, 1),
                                   "*")]

\* the routes of virtual host vhostName made from the ingresses ings: the
\* default backends for "*", and the rules for this host
vhostRoutes(vhostName, ings) ==
    UNION {
        (IF vhostName = "*" /\ ~ings[n].backend.none
         THEN {[ingress |-> n, path |-> "/", backend |-> ings[n].backend]}
         ELSE {})
        \cup {[ingress |-> n, path |-> ings[n].rules[i].path,
               backend |-> ings[n].rules[i].backend] :
                 i \in {j \in DOMAIN ings[n].rules : HostOf(ings[n].rules[j]) = vhostName}}
        : n \in DOMAIN ings}

\* t.recomputevhost(vhostName, ingresses): the virtual host is removed from the
\* VirtualHostCache when no ingress is given and replaced otherwise
recomputevhost(vhc, vhostName, ings) ==
    IF ings = EmptyMap THEN Delete(vhc, vhostName)
    ELSE Put(vhc, vhostName, vhostRoutes(vhostName, ings))

\* addIngress's loop over the rules: t.recomputevhost(host, t.cache.vhosts[host])
RECURSIVE addIngressRules(_, _, _, _)
addIngressRules(vhc, c, obj, i) ==
    IF i > Len(obj.rules) THEN vhc
    ELSE LET host == HostOf(obj.rules[i])
         IN addIngressRules(recomputevhost(vhc, host, Get(c.vhosts, host)),
                            c, obj, i + 1)

\* Translator.addIngress: an ingress of another class is ignored
addIngress(vhc, c, obj) ==
    IF otherClass(obj) THEN vhc
    ELSE addIngressRules(IF obj.backend.none THEN vhc
                         ELSE recomputevhost(vhc, "*", Get(c.vhosts, "*")),
                         c, obj, 1)

\* removeIngress's loop over the rules:
\* t.recomputevhost(rule.Host, t.cache.vhosts[host])
RECURSIVE removeIngressRules(_, _, _, _)
removeIngressRules(vhc, c, obj, i) ==
    IF i > Len(obj.rules) THEN vhc
    ELSE LET host == HostOf(obj.rules[i])
         IN removeIngressRules(
                recomputevhost(vhc, obj.rules[i].host, Get(c.vhosts, host)),
                c, obj, i + 1)

\* Translator.removeIngress: an ingress of another class is ignored
removeIngress(vhc, c, obj) ==
    IF otherClass(obj) THEN vhc
    ELSE removeIngressRules(IF obj.backend.none THEN vhc
                            ELSE recomputevhost(vhc, "*", EmptyMap),
                            c, obj, 1)

\* the Translator with nothing in its caches
NoTranslatorCache ==
    [ingresses |-> EmptyMap, vhosts |-> EmptyMap, VirtualHostCache |-> EmptyMap,
     events |-> 0,
     latest |-> [op |-> "", obj |-> ingA, before |-> EmptyMap, known |-> FALSE]]

\* recomputeListeners and the deferred t.VirtualHostCache.Notify(), which
\* an ingress of another class does not get to
NotifyIngress(obj) ==
    IF otherClass(obj) THEN UNCHANGED <<condLast, ch, waiters>> ELSE
    /\ condLast' = [t \in RegisteredTypes |->
                      IF t \in {listenerType, routeType} THEN condLast[t] + 1
                      ELSE condLast[t]]
    /\ ch' = [s \in Streams |->
                LET l == IF s \in Range(waiters[listenerType])
                         THEN Append(ch[s], condLast[listenerType] + 1) ELSE ch[s]
                IN IF s \in Range(waiters[routeType])
                   THEN Append(l, condLast[routeType] + 1) ELSE l]
    /\ waiters' = [t \in RegisteredTypes |->
                     IF t \in {listenerType, routeType} THEN <<>> ELSE waiters[t]]

\* Translator.OnAdd(*v1beta1.Ingress): t.cache.OnAdd(obj), t.addIngress(obj)
TranslatorOnAdd(obj) ==
    /\ tc.events < MaxVhostEvents
    /\ LET c == cacheOnAdd(tc, obj)
       IN tc' = [c EXCEPT !.VirtualHostCache = addIngress(@, c, obj),
                          !.events = @ + 1,
                          !.latest = [op |-> "OnAdd", obj |-> obj,
                                      before |-> tc.VirtualHostCache,
                                      known |-> obj.name \in DOMAIN tc.ingresses]]
    /\ NotifyIngress(obj)
    /\ UNCHANGED <<statusVars, dagVars, cache, pc, res, req, last, nonce, ctxDone, inbox, sent, err, fetched, tr, gen>>

\* Translator.OnDelete(*v1beta1.Ingress): t.cache.OnDelete(obj),
\* t.removeIngress(obj)
TranslatorOnDelete(obj) ==
    /\ tc.events < MaxVhostEvents
    /\ LET c == cacheOnDelete(tc, obj)
       IN tc' = [c EXCEPT !.VirtualHostCache = removeIngress(@, c, obj),
                          !.events = @ + 1,
                          !.latest = [op |-> "OnDelete", obj |-> obj,
                                      before |-> tc.VirtualHostCache,
                                      known |-> obj.name \in DOMAIN tc.ingresses]]
    /\ NotifyIngress(obj)
    /\ UNCHANGED <<statusVars, dagVars, cache, pc, res, req, last, nonce, ctxDone, inbox, sent, err, fetched, tr, gen>>

(***************************************************************************)
(* The EventHandler (cmd/contour/serve.go, doServe): it receives every     *)
(* informer event, coalesces them with two timers and rebuilds.  Time is   *)
(* in milliseconds.                                                        *)
(***************************************************************************)
HoldoffDelay == 100
HoldoffMaxDelay == 500

\* the interval between two informer events of a burst, shorter than
\* HoldoffDelay: the events of a burst are continuous
EventInterval == 50

\* a timer that is not running
Stopped == 0 - 1

Ceil(a, b) == (a + b - 1) \div b

\* the EventHandler before its first event
NoHandler == [now |-> 0, holdoff |-> Stopped, maxDelay |-> Stopped,
              burst |-> "none", first |-> 0, latest |-> Stopped,
              fired |-> 0, rebuilds |-> 0, writes |-> 0, unelected |-> 0,
              election |-> TRUE, deposed |-> FALSE, stopped |-> FALSE]

Due(timer) == timer # Stopped /\ timer <= eh.now

\* a rebuild that writes the statuses whoever is leader
RebuildUngated(h) ==
    [h EXCEPT !.rebuilds = @ + 1, !.writes = @ + 1,
              !.unelected = IF isLeader THEN @ ELSE @ + 1]

\* a rebuild: it produces the DAG, the resources and the statuses, and
\* writes the statuses if IsLeader is readable
Rebuild(h) ==
    [h EXCEPT !.rebuilds = @ + 1,
              !.writes = IF isLeader THEN @ + 1 ELSE @,
              !.unelected = IF isLeader THEN @ ELSE @ + 1]

\* timers whose holdoff is set by the first event of a burst only
RestartMaxOnly(h) ==
    [h EXCEPT !.holdoff = IF @ = Stopped THEN h.now + HoldoffDelay ELSE @,
              !.maxDelay = IF @ = Stopped THEN h.now + HoldoffMaxDelay ELSE @]

\* what an event does to the timers: the holdoff is restarted, the maximum
\* delay is set if it is not running
Restart(h) ==
    [h EXCEPT !.holdoff = h.now + HoldoffDelay,
              !.maxDelay = IF @ = Stopped THEN h.now + HoldoffMaxDelay ELSE @]

\* an informer event, the first of a burst or the next one of it
OnEvent ==
    /\ ~eh.stopped
    /\ eh.burst \in {"none", "on"}
    /\ eh.latest < eh.now
    /\ eh' = [Restart(eh) EXCEPT !.burst = "on",
                                 !.first = IF eh.burst = "none" THEN eh.now ELSE @,
                                 !.latest = eh.now]
    /\ UNCHANGED <<statusVars, xdsVars, translatorVars, d, mu, rpc, rb, built, visit, ops, lastOp, isLeader, leaderCase>>

\* the burst is over: its latest event was its last
BurstOver ==
    /\ ~eh.stopped
    /\ eh.burst = "on"
    /\ eh.latest = eh.now
    /\ eh' = [eh EXCEPT !.burst = "over"]
    /\ UNCHANGED <<statusVars, xdsVars, translatorVars, d, mu, rpc, rb, built, visit, ops, lastOp, isLeader, leaderCase>>

\* time passes: no timer is due, no rebuild is asked for, and a burst that
\* is on has had its event
Tick ==
    /\ ~eh.stopped
    /\ eh.now + EventInterval <= MaxTime
    /\ ~Due(eh.holdoff) /\ ~Due(eh.maxDelay)
    /\ rpc["leader"] # "requested"
    /\ eh.burst = "on" => eh.latest = eh.now
    /\ eh' = [eh EXCEPT !.now = @ + EventInterval]
    /\ UNCHANGED <<statusVars, xdsVars, translatorVars, d, mu, rpc, rb, built, visit, ops, lastOp, isLeader, leaderCase>>

\* one of the timers expires: the rebuild fires and both timers stop
Fire ==
    /\ ~eh.stopped
    /\ Due(eh.holdoff) \/ Due(eh.maxDelay)
    /\ eh' = [Rebuild(eh) EXCEPT !.fired = @ + 1, !.holdoff = Stopped,
                                 !.maxDelay = Stopped]
    /\ UNCHANGED <<statusVars, xdsVars, translatorVars, d, mu, rpc, rb, built, visit, ops, lastOp, isLeader, leaderCase>>

\* UpdateNow was called: the rebuild runs without a timer
RebuildNow ==
    /\ ~eh.stopped
    /\ rpc["leader"] = "requested"
    /\ rpc' = [rpc EXCEPT !["leader"] = "idle"]
    /\ eh' = Rebuild(eh)
    /\ UNCHANGED <<statusVars, xdsVars, translatorVars, d, mu, rb, built, visit, ops, lastOp, isLeader, leaderCase>>

\* the elector closes the deposed channel: this replica lost the election
Deposed ==
    /\ ~eh.stopped
    /\ eh.election
    /\ isLeader
    /\ ~eh.deposed
    /\ eh' = [eh EXCEPT !.deposed = TRUE]
    /\ UNCHANGED <<statusVars, xdsVars, translatorVars, d, mu, rpc, rb, built, visit, ops, lastOp, isLeader, leaderCase>>

\* the deposer goroutine: case <-deposed: return nil, which shuts the
\* workgroup down, the EventHandler with it
Deposer ==
    /\ ~eh.stopped
    /\ eh.deposed
    /\ eh' = [eh EXCEPT !.stopped = TRUE]
    /\ UNCHANGED <<statusVars, xdsVars, translatorVars, d, mu, rpc, rb, built, visit, ops, lastOp, isLeader, leaderCase>>

(***************************************************************************)
(* The status of HTTPProxy objects (internal/dag/status_test.go,           *)
(* TestDAGStatus): objects are inserted in the builder's source,           *)
(* builder.Build() is called and dag.Statuses() is the status of each      *)
(* proxy by name.  The HTTPProxy processor is written from section 4.2 of  *)
(* the design, the outcomes of the tests deciding where it leaves a        *)
(* choice.                                                                 *)
(***************************************************************************)
\* an entry of a proxy: an include of another proxy, or a route of its own
Include(name) == [include |-> name, path |-> ""]
Route(path) == [include |-> "", path |-> path]

HTTPProxy(name, root, fqdn, entries) ==
    [kind |-> "HTTPProxy", name |-> name, root |-> root, fqdn |-> fqdn,
     tls |-> "", entries |-> entries]

\* proxyIncludesProxyWithIncludeCycle and proxyIncludedChildInvalidIncludeCycle
pxParent == HTTPProxy("parent", TRUE, "example.com", <<Include("child")>>)
pxChild == HTTPProxy("child", FALSE, "", <<Include("child")>>)

\* proxyIncludedChildValid and proxyNotRootIncludeRootProxy
pxValidChild == HTTPProxy("validChild", FALSE, "", <<Route("/")>>)
pxInvalidParent == HTTPProxy("invalidParent", TRUE, "", <<Include("validChild")>>)

\* proxyIncludeValidChild
pxParentValidChild ==
    HTTPProxy("parentvalidchild", TRUE, "example.com", <<Include("validChild")>>)

\* proxyValidExampleCom and proxyValidReuseExampleCom
pxExampleCom == HTTPProxy("example-com", TRUE, "example.com", <<Route("/foo")>>)
pxOtherExample == HTTPProxy("other-example", TRUE, "example.com", <<Route("/")>>)

\* ir1 and ir2 of TestDAGIngressRouteCycle: the root includes finance-root,
\* which has a route and includes the root
pxCycleRoot ==
    HTTPProxy("default/example-com", TRUE, "example.com", <<Include("finance-root")>>)
pxCycleChild ==
    HTTPProxy("finance-root", FALSE, "",
              <<Route("/finance"), Include("default/example-com")>>)

\* p1 of TestHTTPProxyTLSListener: a root with TLS from the Secret secret
pxSimple ==
    [HTTPProxy("simple", TRUE, "kuard.example.com", <<Route("/")>>) EXCEPT !.tls = "secret"]

\* secret1 of TestHTTPProxyTLSListener
secret1 == [kind |-> "Secret", name |-> "secret"]

\* fixture.ServiceRootsHome
svcHome == [kind |-> "Service", name |-> "home"]

StatusObjects == {pxParent, pxChild, pxValidChild, pxInvalidParent, pxParentValidChild,
                  pxExampleCom, pxOtherExample, pxCycleRoot, pxCycleChild, pxSimple,
                  secret1, svcHome}

\* the conditions of fixture.NewValidCondition(): Valid(), WithError(_, reason, _)
\* and Orphaned()
ValidCondition == [type |-> "Valid", status |-> TRUE, reason |-> "Valid"]
WithError(reason) == [type |-> "Valid", status |-> FALSE, reason |-> reason]
OrphanedCondition == [type |-> "Orphaned", status |-> TRUE, reason |-> "Orphaned"]

\* the HTTPProxy objects of the cache c, and the roots among them
Proxies(c) == {n \in DOMAIN c : c[n].kind = "HTTPProxy"}
RootProxies(c) == {n \in Proxies(c) : c[n].root}

\* the roots that declare the FQDN fqdn
Claimants(c, fqdn) == {n \in RootProxies(c) : c[n].fqdn = fqdn}

\* a commit that lets the Valid status of the outer visit replace the error
\* of the inner one
commitLast(status, n) == Put(status, n, ValidCondition)

\* the status writer's commit for proxy n: a Valid status does not replace
\* an error the walk has already recorded for n
commitValid(status, n) ==
    IF n \in DOMAIN status /\ ~status[n].status THEN status
    ELSE Put(status, n, ValidCondition)

\* the walk of the include graph from proxy n, depth-first, from entry i on:
\* visited is the chain of ancestors, acc the statuses and the routes so
\* far.  A proxy is visited at most once per ancestor chain; an include
\* that is not found or is a root fails proxy n there; a proxy that fails
\* does not fail its parent, and the routes gathered before stay.
RECURSIVE computeRoutes(_, _, _, _, _)
computeRoutes(c, n, visited, i, acc) ==
    IF n \in visited
    THEN [acc EXCEPT !.status = Put(@, n, WithError("IncludeCreatesCycle"))]
    ELSE IF i > Len(c[n].entries)
    THEN [acc EXCEPT !.status = commitValid(@, n)]
    ELSE LET e == c[n].entries[i]
             t == e.include
         IN IF t = ""
            THEN computeRoutes(c, n, visited, i + 1,
                               [acc EXCEPT !.routes = @ \cup {e.path}])
            ELSE IF t \notin Proxies(c)
            THEN [acc EXCEPT !.status = Put(@, n, WithError("IncludeNotFound"))]
            ELSE IF c[t].root
            THEN [acc EXCEPT !.status = Put(@, n, WithError("RootIncludesRoot"))]
            ELSE computeRoutes(c, n, visited, i + 1,
                               computeRoutes(c, t, visited \cup {n}, 1, acc))

\* proxy n has TLS from a Secret that is not in the cache
secretMissing(c, n) ==
    c[n].tls # "" /\ ~(c[n].tls \in DOMAIN c /\ c[c[n].tls].kind = "Secret")

\* the roots walked when a missing Secret is let pass
WalkedRootsDespiteSecret(c) ==
    {n \in RootProxies(c) : Claimants(c, c[n].fqdn) = {n} /\ c[n].fqdn # ""}

\* the roots the processor walks: the only claimant of an FQDN that is
\* given, with its Secret in the cache when it has TLS
WalkedRoots(c) ==
    {n \in RootProxies(c) : /\ Claimants(c, c[n].fqdn) = {n}
                            /\ c[n].fqdn # ""
                            /\ ~secretMissing(c, n)}

Walk(c, r) == computeRoutes(c, r, {}, 1, [status |-> EmptyMap, routes |-> {}])

\* a status of root n that lets one claimant of a shared FQDN keep it
rootStatusOneWins(c, n) ==
    IF n # CHOOSE m \in Claimants(c, c[n].fqdn) : TRUE THEN WithError("DuplicateVhost")
    ELSE IF c[n].fqdn = "" THEN WithError("FQDNNotSpecified")
    ELSE IF secretMissing(c, n) THEN WithError("TLSConfigNotValid")
    ELSE Walk(c, n).status[n]

\* the status of root n
rootStatus(c, n) ==
    IF Claimants(c, c[n].fqdn) # {n} THEN WithError("DuplicateVhost")
    ELSE IF c[n].fqdn = "" THEN WithError("FQDNNotSpecified")
    ELSE IF secretMissing(c, n) THEN WithError("TLSConfigNotValid")
    ELSE Walk(c, n).status[n]

\* the proxies that proxy m names in its includes
Included(c, m) ==
    {c[m].entries[i].include : i \in DOMAIN c[m].entries} \cap Proxies(c)

\* a choice of reaching roots that is empty as soon as one root that is not
\* walked includes proxy n
ReachingUnlessInvalidParent(c, n) ==
    IF \E r \in RootProxies(c) \ WalkedRoots(c) : n \in Included(c, r) THEN {}
    ELSE {r \in WalkedRoots(c) : n \in DOMAIN Walk(c, r).status}

\* the walked roots whose walk gave proxy n a status
Reaching(c, n) == {r \in WalkedRoots(c) : n \in DOMAIN Walk(c, r).status}

\* builder.Build(): the statuses of the proxies, the FQDNs a port 80
\* virtual host is published for, and those a port 443 one is
Build(c) ==
    [status |-> [n \in Proxies(c) |->
                   IF c[n].root THEN rootStatus(c, n)
                   ELSE IF Reaching(c, n) # {}
                   THEN Walk(c, CHOOSE r \in Reaching(c, n) : TRUE).status[n]
                   ELSE OrphanedCondition],
     vhosts |-> {c[r].fqdn : r \in {w \in WalkedRoots(c) : Walk(c, w).routes # {}}},
     secure |-> {c[r].fqdn : r \in {w \in WalkedRoots(c) :
                                      Walk(c, w).routes # {} /\ c[w].tls # ""}}]

\* the builder before any Insert and any Build
NoBuilder == [cache |-> EmptyMap, status |-> EmptyMap, vhosts |-> {}, secure |-> {},
              built |-> FALSE, ops |-> 0, latest |-> ""]

\* builder.Source.Insert(o)
SourceInsert(o) ==
    /\ sb.ops < MaxStatusOps
    /\ sb' = [sb EXCEPT !.cache = Put(@, o.name, o), !.built = FALSE,
                        !.ops = @ + 1, !.latest = o.name]
    /\ UNCHANGED <<xdsVars, otherVars, hr, te, hn, so>>

\* builder.Source.Remove(o)
SourceRemove(o) ==
    /\ sb.ops < MaxStatusOps
    /\ sb' = [sb EXCEPT !.cache = Delete(@, o.name), !.built = FALSE,
                        !.ops = @ + 1, !.latest = ""]
    /\ UNCHANGED <<xdsVars, otherVars, hr, te, hn, so>>

\* a Build that adds the new statuses to those of the Build before
BuilderBuildKeepsStatus ==
    /\ ~sb.built
    /\ sb' = [sb EXCEPT !.status = [n \in DOMAIN sb.status \cup Proxies(sb.cache) |->
                                     IF n \in Proxies(sb.cache)
                                     THEN Build(sb.cache).status[n]
                                     ELSE sb.status[n]],
                        !.vhosts = Build(sb.cache).vhosts,
                        !.secure = Build(sb.cache).secure,
                        !.built = TRUE]
    /\ UNCHANGED <<xdsVars, otherVars, hr, te, hn, so>>

\* dag := builder.Build(); got := dag.Statuses()
BuilderBuild ==
    /\ ~sb.built
    /\ sb' = [sb EXCEPT !.status = Build(sb.cache).status,
                        !.vhosts = Build(sb.cache).vhosts,
                        !.secure = Build(sb.cache).secure,
                        !.built = TRUE]
    /\ UNCHANGED <<xdsVars, otherVars, hr, te, hn, so>>

(***************************************************************************)
(* The status of an HTTPRoute (internal/dag/policy.go, package status).    *)
(***************************************************************************)
\* c.gatewayRef: the Gateway this Contour serves, and the Gateway of another
\* controller the route is attached to as well
gatewayRef == "projectcontour/contour"
otherGatewayRef == "other/gateway"

\* the content of the conditions a rebuild computes for the route:
\* ConditionInvalid with ReasonErrorsExist or ReasonValid, and
\* ConditionNotImplemented with ReasonPathMatchType
condErrorsExist == [Type |-> "Invalid", Status |-> "True", Reason |-> "ErrorsExist",
                    Message |-> "errors exist"]
condValid == [Type |-> "Invalid", Status |-> "False", Reason |-> "Valid",
              Message |-> "valid"]
condPathMatchType == [Type |-> "NotImplemented", Status |-> "True",
                      Reason |-> "PathMatchType",
                      Message |-> "path match type"]

\* the lists of conditions a rebuild can compute
ConditionLists == {<<condValid>>, <<condErrorsExist>>,
                   <<condErrorsExist, condPathMatchType>>,
                   <<condPathMatchType, condErrorsExist>>}

\* Type, Status, Reason and Message of a condition
Content(cond) == [Type |-> cond.Type, Status |-> cond.Status, Reason |-> cond.Reason,
                  Message |-> cond.Message]

\* c.getGatewayConditions(route.Status.Gateways): the conditions of the
\* first status of our Gateway, none when there is no such status
RECURSIVE getGatewayConditions(_)
getGatewayConditions(gatewayStatus) ==
    IF gatewayStatus = <<>> THEN <<>>
    ELSE IF Head(gatewayStatus).GatewayRef = gatewayRef
    THEN Head(gatewayStatus).Conditions
    ELSE getGatewayConditions(Tail(gatewayStatus))

\* c.HTTPRouteAccessor(route)
HTTPRouteAccessor(route) ==
    [Conditions |-> <<>>,
     ExistingConditions |-> getGatewayConditions(route.Gateways),
     GatewayRef |-> gatewayRef,
     Generation |-> route.Generation]

\* routeUpdate.AddCondition(cond, status, reason, message) at time.Now() = t
AddCondition(routeUpdate, content, t) ==
    [routeUpdate EXCEPT !.Conditions =
        Append(@, [Type |-> content.Type, Status |-> content.Status,
                   Reason |-> content.Reason, Message |-> content.Message,
                   LastTransitionTime |-> t,
                   ObservedGeneration |-> routeUpdate.Generation])]

\* the accessor and one AddCondition for each computed condition
RECURSIVE AddConditions(_, _, _)
AddConditions(routeUpdate, contents, t) ==
    IF contents = <<>> THEN routeUpdate
    ELSE AddConditions(AddCondition(routeUpdate, Head(contents), t), Tail(contents), t)

\* Mutate's inner loop, for _, existingCond := range ExistingConditions: the
\* loop goes over every existing condition and cond keeps what an earlier
\* pass assigned to it
RECURSIVE overExisting(_, _)
overExisting(cond, existing) ==
    IF existing = <<>> THEN cond
    ELSE LET existingCond == Head(existing)
             next == IF \/ Content(cond) = Content(existingCond)
                        \/ existingCond.ObservedGeneration > cond.ObservedGeneration
                     THEN [cond EXCEPT
                             !.ObservedGeneration = existingCond.ObservedGeneration,
                             !.LastTransitionTime = existingCond.LastTransitionTime]
                     ELSE cond
         IN overExisting(next, Tail(existing))

\* an outer loop that, for a condition already on the object, copies from
\* the first existing condition and not from the one that matched
conditionsToWriteFromFirst(routeUpdate) ==
    [i \in DOMAIN routeUpdate.Conditions |->
        LET cond == routeUpdate.Conditions[i]
            existing == routeUpdate.ExistingConditions
        IN IF \E j \in DOMAIN existing : Content(existing[j]) = Content(cond)
           THEN [cond EXCEPT !.ObservedGeneration = existing[1].ObservedGeneration,
                             !.LastTransitionTime = existing[1].LastTransitionTime]
           ELSE cond]

\* Mutate's outer loop: conditionsToWrite
conditionsToWrite(routeUpdate) ==
    [i \in DOMAIN routeUpdate.Conditions |->
        overExisting(routeUpdate.Conditions[i], routeUpdate.ExistingConditions)]

\* the statuses of obj that are not of the Gateway ref, in their order
RECURSIVE otherGateways(_, _)
otherGateways(gateways, ref) ==
    IF gateways = <<>> THEN <<>>
    ELSE IF Head(gateways).GatewayRef = ref
    THEN otherGateways(Tail(gateways), ref)
    ELSE <<Head(gateways)>> \o otherGateways(Tail(gateways), ref)

\* a Mutate that carries every status of obj over, that of our Gateway
\* included
MutateKeepsAll(routeUpdate, obj) ==
    [obj EXCEPT !.Gateways =
        <<[GatewayRef |-> routeUpdate.GatewayRef,
           Conditions |-> conditionsToWrite(routeUpdate)]>> \o obj.Gateways]

\* routeUpdate.Mutate(obj)
Mutate(routeUpdate, obj) ==
    [obj EXCEPT !.Gateways =
        <<[GatewayRef |-> routeUpdate.GatewayRef,
           Conditions |-> conditionsToWrite(routeUpdate)]>>
        \o otherGateways(obj.Gateways, routeUpdate.GatewayRef)]

\* an HTTPRoute of generation 1 with the status of the other Gateway only,
\* and no update made for it yet
NoRoute ==
    [route |-> [Generation |-> 1,
                Gateways |-> <<[GatewayRef |-> otherGatewayRef,
                                Conditions |-> <<[Type |-> "Admitted", Status |-> "True",
                                                  Reason |-> "Valid", Message |-> "",
                                                  LastTransitionTime |-> 0,
                                                  ObservedGeneration |-> 1]>>]>>],
     now |-> 1,
     updates |-> 0,
     update |-> HTTPRouteAccessor([Generation |-> 1, Gateways |-> <<>>]),
     before |-> <<>>,
     applied |-> 0]

\* the user edits the spec of the route: metadata.generation goes up
SpecChange ==
    /\ hr.route.Generation < MaxGeneration
    /\ hr' = [hr EXCEPT !.route.Generation = @ + 1]
    /\ UNCHANGED <<xdsVars, otherVars, sb, te, hn, so>>

\* a rebuild computes the conditions contents for the route at time hr.now,
\* commits the update, and the status writer applies it with Mutate
StatusUpdate(contents) ==
    /\ hr.updates < MaxRouteUpdates
    /\ LET routeUpdate == AddConditions(HTTPRouteAccessor(hr.route), contents, hr.now)
       IN hr' = [hr EXCEPT !.route = Mutate(routeUpdate, hr.route),
                           !.now = @ + 1,
                           !.updates = @ + 1,
                           !.update = routeUpdate,
                           !.before = getGatewayConditions(hr.route.Gateways),
                           !.applied = 1]
    /\ UNCHANGED <<xdsVars, otherVars, sb, te, hn, so>>

\* the status writer applies the update it holds once more, to the object
\* the first Mutate returned
MutateAgain ==
    /\ hr.applied = 1
    /\ hr' = [hr EXCEPT !.route = Mutate(hr.update, hr.route),
                        !.applied = 2]
    /\ UNCHANGED <<xdsVars, otherVars, sb, te, hn, so>>

(***************************************************************************)
(* The Translator's services and endpoints (internal/annotation/           *)
(* annotations_test.go lines 534-619 and 722-800): OnAdd, OnUpdate and     *)
(* OnDelete store the object in the translatorCache and recompute the      *)
(* ClusterCache and the ClusterLoadAssignmentCache.  The two recompute     *)
(* methods are not in the sources: recomputeService follows               *)
(* TestClusterCacheRecomputeService, recomputeClusterLoadAssignment the    *)
(* specification, and each signals the waiters of its cache.               *)
(***************************************************************************)
\* Service and Endpoints events handled
MaxEndpointEvents == 3

\* v1.EndpointSubset: its addresses and the name of its port
Subset(addresses, portname) == [Addresses |-> addresses, PortName |-> portname]

\* v1.Endpoints
Endpoints(name, subsets) == [kind |-> "Endpoints", name |-> name, Subsets |-> subsets]

epKuard == Endpoints("kuard", <<Subset({"10.0.0.1"}, "http")>>)

\* kuard scaled up to two pods
epKuardScaled == Endpoints("kuard", <<Subset({"10.0.0.1", "10.0.0.2"}, "http")>>)

\* kuard scaled down to no pod
epKuardEmpty == Endpoints("kuard", <<>>)

\* kuard with the name of its port removed
svcKuardUnnamed == [svcKuard EXCEPT !.ports = <<[Port |-> 8080, Name |-> ""]>>]

EndpointObjects == {svcKuard, svcKuardUnnamed, epKuard, epKuardScaled, epKuardEmpty}

\* a nil *v1.Service or *v1.Endpoints
Nil == [kind |-> "nil", name |-> ""]

\* servicename: the name of the service, with the name of the port if it has
\* one (the namespace is the same for all)
servicename(name, portname) ==
    IF portname = "" THEN name ELSE name \o "/" \o portname

\* the clusters of a service: for each port one named by its number and, if
\* the port is named, one named by its name; the value is the cluster's
\* EdsClusterConfig.ServiceName
clustersOf(svc) ==
    IF svc.kind = "nil" THEN EmptyMap
    ELSE LET ps == Range(svc.ports)
             cs == {<<servicename(svc.name, FormatInt(p.Port)),
                      servicename(svc.name, p.Name)>> : p \in ps}
                   \cup {<<servicename(svc.name, p.Name),
                           servicename(svc.name, p.Name)>> : p \in {q \in ps : q.Name # ""}}
         IN [n \in {c[1] : c \in cs} |-> (CHOOSE c \in cs : c[1] = n)[2]]

\* ClusterCache.recomputeService(oldsvc, newsvc): the clusters of newsvc are
\* added or replaced, those of oldsvc that newsvc has not are removed
recomputeService(cc, oldsvc, newsvc) ==
    LET new == clustersOf(newsvc)
        old == clustersOf(oldsvc)
    IN [n \in (DOMAIN cc \ DOMAIN old) \cup DOMAIN new |->
          IF n \in DOMAIN new THEN new[n] ELSE cc[n]]

\* the ClusterLoadAssignments of an Endpoints object: one per subset that has
\* addresses, named after the service and the subset's port
assignmentsOf(ep) ==
    IF ep.kind = "nil" THEN EmptyMap
    ELSE LET ss == {s \in Range(ep.Subsets) : s.Addresses # {}}
         IN [n \in {servicename(ep.name, s.PortName) : s \in ss} |->
               UNION {s.Addresses : s \in {x \in ss : servicename(ep.name, x.PortName) = n}}]

\* ClusterLoadAssignmentCache.recomputeClusterLoadAssignment(oldep, newep)
recomputeClusterLoadAssignment(cc, oldep, newep) ==
    LET new == assignmentsOf(newep)
        old == assignmentsOf(oldep)
    IN [n \in (DOMAIN cc \ DOMAIN old) \cup DOMAIN new |->
          IF n \in DOMAIN new THEN new[n] ELSE cc[n]]

\* translatorCache.OnAdd: t.services[md] = obj, t.endpoints[md] = obj
storeOnAdd(t, obj) ==
    IF obj.kind = "Service" THEN [t EXCEPT !.services = Put(@, obj.name, obj)]
    ELSE [t EXCEPT !.endpoints = Put(@, obj.name, obj)]

\* translatorCache.OnDelete: delete(t.services, md), delete(t.endpoints, md)
storeOnDelete(t, obj) ==
    IF obj.kind = "Service" THEN [t EXCEPT !.services = Delete(@, obj.name)]
    ELSE [t EXCEPT !.endpoints = Delete(@, obj.name)]

\* Translator.addService
addService(t, svc) ==
    LET ok == svc.name \in DOMAIN t.endpoints
        t1 == IF ~ok THEN t
              ELSE [t EXCEPT !.ClusterLoadAssignmentCache =
                                 recomputeClusterLoadAssignment(@, Nil, t.endpoints[svc.name]),
                             !.notified = @ \cup {endpointType}]
    IN [t1 EXCEPT !.ClusterCache = recomputeService(@, Nil, svc),
                  !.notified = @ \cup {clusterType}]

\* Translator.removeService
removeService(t, svc) ==
    [t EXCEPT !.ClusterCache = recomputeService(@, svc, Nil),
              !.notified = @ \cup {clusterType}]

\* Translator.addEndpoints without its first test
addEndpointsEmptyToo(t, e) ==
    IF e.name \notin DOMAIN t.services THEN t
    ELSE [t EXCEPT !.ClusterLoadAssignmentCache = recomputeClusterLoadAssignment(@, Nil, e),
                   !.notified = @ \cup {endpointType}]

\* Translator.addEndpoints
addEndpoints(t, e) ==
    IF Len(e.Subsets) < 1 THEN t
    ELSE IF e.name \notin DOMAIN t.services THEN t
    ELSE [t EXCEPT !.ClusterLoadAssignmentCache = recomputeClusterLoadAssignment(@, Nil, e),
                   !.notified = @ \cup {endpointType}]

\* Translator.removeEndpoints
removeEndpoints(t, e) ==
    [t EXCEPT !.ClusterLoadAssignmentCache = recomputeClusterLoadAssignment(@, e, Nil),
              !.notified = @ \cup {endpointType}]

NoEndpoints ==
    [services |-> EmptyMap, endpoints |-> EmptyMap, ClusterCache |-> EmptyMap,
     ClusterLoadAssignmentCache |-> EmptyMap, notified |-> {}, events |-> 0,
     latest |-> [op |-> "", obj |-> Nil]]

\* the Notify calls of the caches in ts: the endpoints cache's before the
\* cluster cache's
NotifyCaches(ts) ==
    /\ condLast' = [t \in RegisteredTypes |->
                      IF t \in ts THEN condLast[t] + 1 ELSE condLast[t]]
    /\ ch' = [s \in Streams |->
                LET e == IF endpointType \in ts /\ s \in Range(waiters[endpointType])
                         THEN Append(ch[s], condLast[endpointType] + 1) ELSE ch[s]
                IN IF clusterType \in ts /\ s \in Range(waiters[clusterType])
                   THEN Append(e, condLast[clusterType] + 1) ELSE e]
    /\ waiters' = [t \in RegisteredTypes |-> IF t \in ts THEN <<>> ELSE waiters[t]]

\* the handler has returned: the event is counted and the waiters of the
\* caches it recomputed are signalled
Handled(t, op, obj) ==
    /\ te' = [t EXCEPT !.events = te.events + 1, !.latest = [op |-> op, obj |-> obj]]
    /\ NotifyCaches(t.notified)
    /\ UNCHANGED <<sb, hr, hn, so, otherVars, cache, pc, res, req, last, nonce, ctxDone, inbox, sent, err, fetched>>

\* the translatorCache holds an object of obj's kind and name
Known(obj) ==
    IF obj.kind = "Service" THEN obj.name \in DOMAIN te.services
    ELSE obj.name \in DOMAIN te.endpoints

\* the object of obj's kind and name that the translatorCache holds
Stored(obj) ==
    IF obj.kind = "Service" THEN te.services[obj.name] ELSE te.endpoints[obj.name]

\* Translator.OnAdd(obj) for a Service or an Endpoints object the informer
\* has not delivered before
OnAdd(obj) ==
    /\ te.events < MaxEndpointEvents
    /\ ~Known(obj)
    /\ LET t == storeOnAdd([te EXCEPT !.notified = {}], obj)
       IN Handled(IF obj.kind = "Service" THEN addService(t, obj) ELSE addEndpoints(t, obj),
                  "OnAdd", obj)

\* Translator.OnUpdate(oldObj, newObj): oldObj is the object delivered last
OnUpdate(oldObj, newObj) ==
    /\ te.events < MaxEndpointEvents
    /\ Known(oldObj)
    /\ Stored(oldObj) = oldObj
    /\ newObj.kind = oldObj.kind
    /\ newObj.name = oldObj.name
    /\ LET t == storeOnAdd([te EXCEPT !.notified = {}], newObj)
       IN Handled(IF newObj.kind = "Service"
                  THEN [t EXCEPT !.ClusterCache = recomputeService(@, oldObj, newObj),
                                 !.notified = @ \cup {clusterType}]
                  ELSE addEndpoints(t, newObj),
                  "OnUpdate", newObj)

\* Translator.OnDelete(obj)
OnDelete(obj) ==
    /\ te.events < MaxEndpointEvents
    /\ Known(obj)
    /\ Stored(obj) = obj
    /\ LET t == storeOnDelete([te EXCEPT !.notified = {}], obj)
       IN Handled(IF obj.kind = "Service" THEN removeService(t, obj)
                  ELSE removeEndpoints(t, obj),
                  "OnDelete", obj)

(***************************************************************************)
(* hashname and truncate (internal/annotation/annotations_test.go lines    *)
(* 822-868).  Strings are strings; the SHA-256 digest of the joined name   *)
(* is an input of the call, one of the strings of 64 hexadecimal digits    *)
(* of Digests.                                                             *)
(***************************************************************************)
\* the greatest limit l hashname is called with
MaxLimit == 72

\* the greatest number of components hashname is called with
MaxComponents == 3

\* the components of a name
Components == {"", "kuard", "a-service-with-a-name-of-forty-one-bytes."}

\* fmt.Sprintf("%x", sha256.Sum256(...)): 64 hexadecimal digits
Digests == {"e3b0c44298fc1c149afbf4c8996fb92427ae41e4649b934ca495991b7852b855",
            "9f86d081884c7d659a2feaa0c55ad015a3bf4f1b2b0b822cd15d6c15b0f00a08"}

\* the lists of at most n components
RECURSIVE ComponentLists(_)
ComponentLists(n) ==
    IF n = 0 THEN {<<>>}
    ELSE LET shorter == ComponentLists(n - 1)
         IN shorter \cup {Append(q, c) : q \in shorter, c \in Components}

\* strings.Join(s, "/")
RECURSIVE Join(_)
Join(s) ==
    IF s = <<>> THEN ""
    ELSE IF Len(s) = 1 THEN s[1]
    ELSE s[1] \o "/" \o Join(Tail(s))

\* min with the test left out
minFirst(a, b) == a

\* min
min(a, b) == IF a > b THEN b ELSE a

\* const shorthash
shorthash == 6

\* truncate(l, s, suffix)
truncate(l, str, suffix) ==
    IF l >= Len(str) THEN str
    ELSE IF l <= Len(suffix) THEN SubSeq(suffix, 1, min(l, Len(suffix)))
    ELSE SubSeq(str, 1, l - Len(suffix) - 1) \o "-" \o suffix

\* hashname's loop for n := len(s) - 1; n >= 0; n-- (components are counted
\* from 1 here), and the return after it
RECURSIVE truncateFrom(_, _, _, _)
truncateFrom(l, s, hash, n) ==
    IF n < 1 THEN SubSeq(hash, 1, min(Len(hash), l))
    ELSE LET s1 == [s EXCEPT ![n] = truncate(l \div Len(s), s[n],
                                            SubSeq(hash, 1, shorthash))]
             r == Join(s1)
         IN IF l > Len(r) THEN r ELSE truncateFrom(l, s1, hash, n - 1)

\* hashname(l, s...), hash being the digest of strings.Join(s, "/")
hashname(l, s, hash) ==
    LET r == Join(s)
    IN IF l > Len(r) THEN r ELSE truncateFrom(l, s, hash, Len(s))

NoName == [l |-> 0, s |-> <<>>, hash |-> "", r |-> "", called |-> FALSE]

\* a call of hashname
Hashname(l, s, hash) ==
    /\ ~hn.called
    /\ hn' = [l |-> l, s |-> s, hash |-> hash, r |-> hashname(l, s, hash),
              called |-> TRUE]
    /\ UNCHANGED <<xdsVars, otherVars, sb, hr, te, so>>

(***************************************************************************)
(* The route sorter (internal/sorter): sort.Stable(For(routes)).  Its code *)
(* is not in the sources; the order is the one of the specification (4.2   *)
(* step 4) where the tests of sorter_test.go leave it open, and the one    *)
(* the tests expect where they settle it: header matchers are compared by  *)
(* name and then by the text of the matcher (TestSortHeaderMatchers,       *)
(* TestSortRoutesLongestHeaders).  sort.Stable sorts fewer than 20         *)
(* elements by insertion.                                                  *)
(***************************************************************************)
\* the greatest number of routes handed to the sorter
MaxRoutes == 3

\* the bytes of the strings of the model, in ascending order
Alphabet == "-./2:_acdefghilmnoprstuvx"

\* the position of the one-byte string c in Alphabet
Rank(c) == CHOOSE k \in 1..Len(Alphabet) : SubSeq(Alphabet, k, k) = c

\* strings.Compare(a, b)
RECURSIVE Compare(_, _)
Compare(a, b) ==
    IF a = b THEN 0
    ELSE IF a = "" THEN -1
    ELSE IF b = "" THEN 1
    ELSE LET x == Rank(SubSeq(a, 1, 1))
             y == Rank(SubSeq(b, 1, 1))
         IN IF x < y THEN -1
            ELSE IF x > y THEN 1
            ELSE Compare(SubSeq(a, 2, Len(a)), SubSeq(b, 2, Len(b)))

\* exactHeader(name, value) and presentHeader(name): a HeaderMatcher
exactHeader(name, value) == [Name |-> name, match |-> "exact_match", value |-> value]

presentHeader(name) == [Name |-> name, match |-> "present_match", value |-> "true"]

\* the text of a header matcher's HeaderMatchSpecifier
matcherText(h) == h.match \o ":" \o h.value

\* header matchers: by name, then by the text of the matcher
headerLess(g, h) ==
    LET val == Compare(g.Name, h.Name)
    IN IF val = 0 THEN Compare(matcherText(g), matcherText(h)) < 0 ELSE val < 0

\* the first pair of header matchers that differ decides
RECURSIVE headersLess(_, _)
headersLess(gs, hs) ==
    IF gs = <<>> \/ hs = <<>> THEN FALSE
    ELSE IF headerLess(Head(gs), Head(hs)) THEN TRUE
    ELSE IF headerLess(Head(hs), Head(gs)) THEN FALSE
    ELSE headersLess(Tail(gs), Tail(hs))

\* a Route: the kind of its path match, the path, its header matchers, and
\* the cluster it routes to
Route3(kind, path, headers, cluster) ==
    [kind |-> kind, path |-> path, headers |-> headers, cluster |-> cluster]

\* the routes of TestSortRoutesLongestPath and TestSortRoutesLongestHeaders,
\* an exact match, and a second route with the same match to another cluster
SorterRoutes ==
    {Route3("regex", "/this/is/the/longest", <<>>, "a"),
     Route3("regex", ".", <<>>, "a"),
     Route3("prefix", "/path/prefix2", <<>>, "a"),
     Route3("prefix", "/path/prefix", <<>>, "a"),
     Route3("exact", "/path", <<>>, "a"),
     Route3("prefix", "/path", <<exactHeader("header-name", "header-value")>>, "a"),
     Route3("prefix", "/path", <<presentHeader("header-name")>>, "a"),
     Route3("prefix", "/path",
            <<exactHeader("long-header-name", "long-header-value")>>, "a"),
     Route3("prefix", "/path", <<>>, "a"),
     Route3("prefix", "/path", <<exactHeader("header-name", "header-value")>>, "b")}

\* path-match kind: regex < exact < prefix
kindRank(kind) == CASE kind = "regex" -> 0 [] kind = "exact" -> 1 [] OTHER -> 2

\* routeSorter.Less(i, j) for the routes lhs and rhs
routeLess(lhs, rhs) ==
    IF kindRank(lhs.kind) # kindRank(rhs.kind) THEN kindRank(lhs.kind) < kindRank(rhs.kind)
    ELSE IF Len(lhs.path) # Len(rhs.path) THEN Len(lhs.path) > Len(rhs.path)
    ELSE IF Len(lhs.headers) # Len(rhs.headers) THEN Len(lhs.headers) > Len(rhs.headers)
    ELSE headersLess(lhs.headers, rhs.headers)

\* insertion that puts element x before the first element it is not
\* greater than
RECURSIVE insertionSortEarly(_, _, _)
insertionSortEarly(routes, q, x) ==
    IF q = <<>> THEN <<x>>
    ELSE IF ~routeLess(routes[Head(q)], routes[x]) THEN <<x>> \o q
    ELSE <<Head(q)>> \o insertionSortEarly(routes, Tail(q), x)

\* insertionSort's inner loop: element x moves down past the elements it is
\* less than; q and the result list positions of routes
RECURSIVE insertionSort(_, _, _)
insertionSort(routes, q, x) ==
    IF q = <<>> THEN <<x>>
    ELSE IF routeLess(routes[x], routes[Last(q)])
         THEN Append(insertionSort(routes, SubSeq(q, 1, Len(q) - 1), x), Last(q))
    ELSE Append(q, x)

\* sort.Stable on the first n routes: the positions in sorted order
RECURSIVE stable(_, _)
stable(routes, n) ==
    IF n = 0 THEN <<>> ELSE insertionSort(routes, stable(routes, n - 1), n)

\* the lists of at most n routes
RECURSIVE RouteLists(_)
RouteLists(n) ==
    IF n = 0 THEN {<<>>}
    ELSE LET shorter == RouteLists(n - 1)
         IN shorter \cup {Append(q, r) : q \in shorter, r \in SorterRoutes}

NoSort == [have |-> <<>>, order |-> <<>>, sorted |-> <<>>, called |-> FALSE]

\* sort.Stable(For(have))
SortRoutes(have) ==
    /\ ~so.called
    /\ LET order == stable(have, Len(have))
       IN so' = [have |-> have, order |-> order,
                 sorted |-> [k \in DOMAIN order |-> have[order[k]]],
                 called |-> TRUE]
    /\ UNCHANGED <<xdsVars, otherVars, sb, hr, te, hn>>

(***************************************************************************)
(* Specifications.                                                         *)
(***************************************************************************)
\* the state after construction of everything but the leader election
InitElse ==
    /\ cache = [t \in RegisteredTypes |-> IF t = routeType THEN CacheNames ELSE {}]
    /\ condLast = [t \in RegisteredTypes |-> 0]
    /\ waiters = [t \in RegisteredTypes |-> <<>>]
    /\ pc = [s \in Streams |-> "closed"]
    /\ res = [s \in Streams |-> ""]
    /\ req = [s \in Streams |-> NoReq]
    /\ last = [s \in Streams |-> 0]
    /\ nonce = [s \in Streams |-> 0]
    /\ ch = [s \in Streams |-> <<>>]
    /\ ctxDone = [s \in Streams |-> FALSE]
    /\ inbox = [s \in Streams |-> <<>>]
    /\ sent = [s \in Streams |-> <<>>]
    /\ err = [s \in Streams |-> ""]
    /\ fetched = [req |-> NoReq, resp |-> NoResp, err |-> ""]
    /\ tr = Idle
    /\ gen = [t \in RegisteredTypes |-> 0]
    /\ d = ZeroDAG
    /\ mu = ""
    /\ rpc = [g \in Rebuilders |-> "idle"]
    /\ rb = [g \in Rebuilders |-> NoRecompute]
    /\ built = Maps(ZeroDAG)
    /\ visit = NoVisit
    /\ ops = 0
    /\ lastOp = NoOp
    /\ tc = NoTranslatorCache
    /\ sb = NoBuilder
    /\ hr = NoRoute
    /\ te = NoEndpoints
    /\ hn = NoName
    /\ so = NoSort

\* leader election is enabled
Init ==
    /\ InitElse
    /\ isLeader = FALSE
    /\ leaderCase = TRUE
    /\ eh = NoHandler

\* ctx.DisableLeaderElection is set or not: when it is, IsLeader is a closed
\* channel from the start and there is no election goroutine
InitHandler ==
    /\ InitElse
    /\ \E election \in BOOLEAN :
          /\ isLeader = ~election
          /\ leaderCase = election
          /\ eh = [NoHandler EXCEPT !.election = election]

Next ==
    \/ \E t \in UpdatedTypes : \E c \in Contents(t) : Update(t, c)
    \/ \E s \in Streams : Open(s)
    \/ \E s \in Streams : \E rq \in Requests : PeerRequest(s, rq)
    \/ \E s \in Streams : Cancel(s)
    \/ \E s \in Streams : streamRecv(s)
    \/ \E s \in Streams : streamRecvErr(s)
    \/ \E s \in Streams : streamRegister(s)
    \/ \E s \in Streams : streamNotified(s)
    \/ \E s \in Streams : streamDone(s)
    \/ \E s \in Streams : streamSend(s)
    \/ \E rq \in Requests : fetch(rq)

Spec == Init /\ [][Next]_vars

\* the server of part_005 with a peer that may reject updates; unary Fetch,
\* which takes no part in a stream, is left out
NextNack ==
    \/ \E t \in UpdatedTypes : \E c \in Contents(t) : Update(t, c)
    \/ \E s \in Streams : Open(s)
    \/ \E s \in Streams : \E rq \in Requests : PeerRequest(s, rq)
    \/ \E s \in Streams : \E rq \in Nacks : PeerNack(s, rq)
    \/ \E s \in Streams : Cancel(s)
    \/ \E s \in Streams : streamRecv(s)
    \/ \E s \in Streams : streamRecvErr(s)
    \/ \E s \in Streams : streamRegister(s)
    \/ \E s \in Streams : streamNotified(s)
    \/ \E s \in Streams : streamDone(s)
    \/ \E s \in Streams : streamSend(s)

SpecNack == Init /\ [][NextNack]_vars

\* the server of part_005 with its stream handlers scheduled fairly: a
\* goroutine that can take its next step takes it in the end.  Unary Fetch,
\* which takes no part in a stream, is left out
NextLive ==
    \/ \E t \in UpdatedTypes : \E c \in Contents(t) : Update(t, c)
    \/ \E s \in Streams : Open(s)
    \/ \E s \in Streams : \E rq \in Requests : PeerRequest(s, rq)
    \/ \E s \in Streams : Cancel(s)
    \/ \E s \in Streams : streamRecv(s)
    \/ \E s \in Streams : streamRecvErr(s)
    \/ \E s \in Streams : streamRegister(s)
    \/ \E s \in Streams : streamNotified(s)
    \/ \E s \in Streams : streamDone(s)
    \/ \E s \in Streams : streamSend(s)

SpecLive ==
    /\ Init
    /\ [][NextLive]_vars
    /\ \A s \in Streams :
          /\ WF_vars(streamRecv(s))
          /\ WF_vars(streamRegister(s))
          /\ WF_vars(streamNotified(s))
          /\ WF_vars(streamSend(s))

\* the services of part_006 with their stream handlers scheduled fairly
NextLive0 ==
    \/ \E t \in UpdatedTypes : \E c \in Contents(t) : Update(t, c)
    \/ \E s \in Streams : \E t \in RegisteredTypes : Open0(s, t)
    \/ \E s \in Streams : Cancel(s)
    \/ \E s \in Streams : stream0Register(s)
    \/ \E s \in Streams : stream0Notified(s)
    \/ \E s \in Streams : stream0Done(s)
    \/ \E s \in Streams : stream0Send(s)

SpecLive0 ==
    /\ Init
    /\ [][NextLive0]_vars
    /\ \A s \in Streams :
          /\ WF_vars(stream0Register(s))
          /\ WF_vars(stream0Notified(s))
          /\ WF_vars(stream0Send(s))

Next0 ==
    \/ \E t \in UpdatedTypes : \E c \in Contents(t) : Update(t, c)
    \/ \E s \in Streams : \E t \in RegisteredTypes : Open0(s, t)
    \/ \E s \in Streams : Cancel(s)
    \/ \E s \in Streams : stream0Register(s)
    \/ \E s \in Streams : stream0Notified(s)
    \/ \E s \in Streams : stream0Done(s)
    \/ \E s \in Streams : stream0Send(s)
    \/ \E t \in RegisteredTypes : \E rq \in Requests : Fetch0(t, rq)

Spec0 == Init /\ [][Next0]_vars

\* the Translator filling the caches the services of part_006 stream from
NextTranslator ==
    \/ \E c \in SUBSET CacheNames : \E ep \in BOOLEAN : OnAddService(c, ep)
    \/ addServiceEndpoints
    \/ addServiceCluster
    \/ \E c \in SUBSET CacheNames : \E class \in IngressClasses : OnAddIngress(c, class)
    \/ addIngressListeners
    \/ addIngressVhosts
    \/ addIngressNotify
    \/ \E s \in Streams : \E t \in RegisteredTypes : Open0(s, t)
    \/ \E s \in Streams : Cancel(s)
    \/ \E s \in Streams : stream0Register(s)
    \/ \E s \in Streams : stream0Notified(s)
    \/ \E s \in Streams : stream0Done(s)
    \/ \E s \in Streams : stream0Send(s)

SpecTranslator == Init /\ [][NextTranslator]_vars

\* the DAG with the goroutines that fill, recompute and visit it
NextDAG ==
    \/ \E obj \in Objects : Insert(obj)
    \/ \E obj \in Objects \cup {Tombstone(o) : o \in Objects} : Remove(obj)
    \/ \E g \in Rebuilders : RecomputeLock(g)
    \/ \E g \in Rebuilders : RecomputeStep(g)
    \/ \E g \in Rebuilders : RecomputeUnlock(g)
    \/ VisitLock
    \/ VisitRoot
    \/ VisitReturn
    \/ Elected
    \/ LeaderUpdateNow

SpecDAG == Init /\ [][NextDAG]_vars

NextHandler ==
    \/ OnEvent
    \/ BurstOver
    \/ Tick
    \/ Fire
    \/ Elected
    \/ LeaderUpdateNow
    \/ RebuildNow
    \/ Deposed
    \/ Deposer

SpecHandler == InitHandler /\ [][NextHandler]_vars

NextVhosts ==
    \/ \E obj \in Ingresses : TranslatorOnAdd(obj)
    \/ \E obj \in Ingresses : TranslatorOnDelete(obj)

SpecVhosts == Init /\ [][NextVhosts]_vars

NextStatus ==
    \/ \E o \in StatusObjects : SourceInsert(o)
    \/ \E o \in StatusObjects : SourceRemove(o)
    \/ BuilderBuild

SpecStatus == Init /\ [][NextStatus]_vars

NextRoute ==
    \/ SpecChange
    \/ \E contents \in ConditionLists : StatusUpdate(contents)
    \/ MutateAgain

SpecRoute == Init /\ [][NextRoute]_vars

\* the Translator handling Service and Endpoints events while streams of the
\* cluster and endpoint services wait on the caches
NextEndpoints ==
    \/ \E obj \in EndpointObjects : OnAdd(obj)
    \/ \E oldObj \in EndpointObjects : \E newObj \in EndpointObjects : OnUpdate(oldObj, newObj)
    \/ \E obj \in EndpointObjects : OnDelete(obj)
    \/ \E s \in Streams : \E t \in {clusterType, endpointType} : Open0(s, t)
    \/ \E s \in Streams : stream0Register(s)
    \/ \E s \in Streams : stream0Notified(s)
    \/ \E s \in Streams : stream0Send(s)

SpecEndpoints == Init /\ [][NextEndpoints]_vars

\* one call of hashname with any limit, components and digest
NextHashname ==
    \E l \in 0..MaxLimit : \E s \in ComponentLists(MaxComponents) : \E hash \in Digests :
       Hashname(l, s, hash)

SpecHashname == Init /\ [][NextHashname]_vars

\* one call of the sorter with any list of routes
NextSorter == \E have \in RouteLists(MaxRoutes) : SortRoutes(have)

SpecSorter == Init /\ [][NextSorter]_vars

TypeOK ==
    /\ \A t \in RegisteredTypes : cache[t] \in Contents(t)
    /\ \A s \in Streams : Len(ch[s]) <= 1
    /\ \A s \in Streams :
         pc[s] \in {"closed", "recv", "register", "select", "values", "done"}

(***************************************************************************)
(* Properties.                                                             *)
(***************************************************************************)
\* the Any values of exactly the resources of cache t that the resource_names
\* list selects (all of them when the list is empty), in the order of Values
ExpectedResources(t, names) ==
    LET keep == {n \in cache[t] :
                    Len(names) = 0 \/ \E i \in DOMAIN names : names[i] = n}
        v == SelectSeq(NameOrder, LAMBDA n : n \in keep)
    IN [i \in 1..Len(v) |-> [TypeUrl |-> t, Value |-> v[i]]]

\* the request the peer wrote last on stream s
LatestRequest(s) == IF inbox[s] # <<>> THEN Last(inbox[s]) ELSE req[s]

\* C1: on one stream, every response with a non-empty resource list carries a
\* version_info strictly greater than that of the response sent before it.
C1_VersionStrictlyIncreases ==
    \A s \in Streams : \A i \in 2..Len(sent[s]) :
        sent[s][i].resources # <<>> =>
            ParseInt(sent[s][i].version_info) > ParseInt(sent[s][i - 1].version_info)

\* C2: on one stream, no two responses carry the same nonce.
C2_NonceUnique ==
    \A s \in Streams : \A i, j \in DOMAIN sent[s] :
        i # j => sent[s][i].nonce # sent[s][j].nonce

\* C3: a handler that was notified and has sent no response yet on a live
\* stream sends one, even when the filtered resource set is empty: it does
\* not go back to waiting without a first response.
C3_FirstResponseSentWhenEmpty ==
    [][\A s \in Streams :
          (pc[s] = "values" /\ sent[s] = <<>> /\ ~ctxDone[s] /\ pc'[s] # "values")
              => Len(sent'[s]) = 1]_vars

\* C4: after its first response a stream sends no response with an empty
\* resource list.
C4_NoEmptyAfterFirst ==
    \A s \in Streams : \A i \in 2..Len(sent[s]) : sent[s][i].resources # <<>>

\* C5: every response is filtered by the resource names of the request the
\* peer wrote last, not by those of an earlier request.
C5_FilteredByLatestRequest ==
    [][\A s \in Streams :
          sent'[s] # sent[s] =>
              Last(sent'[s]).resources
                  = ExpectedResources(res[s], LatestRequest(s).resource_names)]_vars

\* C6: a stream response holds exactly the cache resources named in the
\* resource_names of the request the handler received, and all cache
\* resources of the type when that list is empty.
C6_ResponseIsFilteredCache ==
    [][\A s \in Streams :
          sent'[s] # sent[s] =>
              /\ Last(sent'[s]).type_url = req[s].type_url
              /\ Last(sent'[s]).resources
                   = ExpectedResources(req[s].type_url, req[s].resource_names)]_vars

C6_Witness ==
    \E s \in Streams :
        /\ sent[s] # <<>>
        /\ req[s].resource_names = <<"ingress_http">>
        /\ Len(Last(sent[s]).resources) = 1
        /\ Last(sent[s]).resources[1].Value = "ingress_http"
        /\ cache[res[s]] = CacheNames

C8_NoWaiterAfterReturn ==
    \A s \in Streams :
        pc[s] = "done" => \A t \in RegisteredTypes : s \notin Range(waiters[t])

\* C9: a request whose type_url has no registered resource type gives an
\* error and no response, on a stream (whose handler returns) and in Fetch.
C9_UnknownTypeIsError ==
    /\ \A s \in Streams :
          (~req[s].none /\ req[s].type_url \notin RegisteredTypes) =>
              /\ pc[s] = "done"
              /\ err[s] = "no resource registered"
              /\ sent[s] = <<>>
    /\ (~fetched.req.none /\ fetched.req.type_url \notin RegisteredTypes) =>
          /\ fetched.err = "no resource registered"
          /\ fetched.resp.none

C9_Witness ==
    /\ \E s \in Streams :
          /\ req[s].type_url = unknownType
          /\ pc[s] = "done"
          /\ err[s] = "no resource registered"
    /\ fetched.req.type_url = unknownType
    /\ fetched.err = "no resource registered"

\* C10: a unary Fetch returns the current resources of the requested type,
\* restricted by the request's resource names (all of them when the list is
\* empty).
C10_FetchIsFilteredCache ==
    [][(fetched' # fetched /\ fetched'.err = "") =>
          fetched'.resp.resources
              = ExpectedResources(fetched'.req.type_url,
                                  fetched'.req.resource_names)]_vars

\* C11: a request that carries error_detail changes no resource cache, no
\* cache version and no response already sent, neither when the peer writes
\* it nor when the handler receives it, and the stream stays open.
C11_NackChangesNoState ==
    [][\A s \in Streams :
          (\/ /\ Len(inbox'[s]) > Len(inbox[s])
              /\ Last(inbox'[s]).error_detail
           \/ /\ req'[s] # req[s]
              /\ req'[s].error_detail)
              => /\ cache' = cache
                 /\ condLast' = condLast
                 /\ sent' = sent
                 /\ pc'[s] \notin {"closed", "done"}]_vars

C11_Witness ==
    \E s \in Streams :
        /\ req[s].error_detail
        /\ pc[s] = "select"
        /\ inbox[s] # <<>>
        /\ Last(inbox[s]).error_detail
        /\ sent[s] # <<>>

\* C12: while the Translator handles an event, no waiter of a resource cache
\* is woken before every cache the event recomputes holds the event's
\* results.
C12_NoWakeBeforeAllCachesUpdated ==
    [][\A t \in RegisteredTypes :
          (condLast'[t] # condLast[t] /\ waiters[t] # <<>>)
              => \A u \in Touched(tr) : gen'[u] = tr.id]_vars

\* C13: at most one goroutine is inside recompute at any time, whoever asked
\* for it: the handler of Kubernetes events or UpdateNow on election.
C13_OneRecomputeAtATime ==
    Cardinality({g \in Rebuilders : rpc[g] = "recompute"}) <= 1

C13_Witness ==
    /\ rpc["handler"] = "recompute"
    /\ rb["handler"].vh # EmptyMap
    /\ rpc["leader"] = "requested"

\* C17: d.dag is nil or a dag recompute returned in full, and what a Visit
\* has seen are roots of the one dag it took under the lock, all of them
\* once it returns, whatever Recompute does meanwhile.
C17_VisitSeesOneCompleteDag ==
    /\ d.dag.none \/ d.dag \in Builds(built)
    /\ visit.pc \in {"visiting", "done"} =>
          /\ visit.dag \in Builds(visit.built)
          /\ \A hp \in DOMAIN visit.seen :
                /\ hp \in DOMAIN visit.dag.roots
                /\ visit.seen[hp] = visit.dag.roots[hp]
          /\ visit.pc = "done" => DOMAIN visit.seen = DOMAIN visit.dag.roots

C17_Witness ==
    /\ visit.pc = "visiting"
    /\ visit.seen # EmptyMap
    /\ d.dag.roots # visit.dag.roots
    /\ \E g \in Rebuilders : rpc[g] = "recompute" /\ rb[g].vh # EmptyMap

\* C18: the dag a Recompute stores is the only one recompute can return for
\* the objects in the maps, whatever order the maps are ranged over.
C18_RecomputeDeterministic ==
    [][(\E g \in Rebuilders : rpc[g] = "recompute" /\ rpc'[g] = "idle")
          => Builds(d) = {d'.dag}]_vars

C16_BurstBound ==
    eh.burst # "none" =>
        eh.fired <= Ceil(eh.latest - eh.first, HoldoffMaxDelay) + 1

C16_Witness ==
    /\ eh.burst = "over"
    /\ eh.latest - eh.first = 2 * HoldoffMaxDelay
    /\ eh.fired = 3
    /\ eh.holdoff = Stopped

\* C19: an ingress that was not known is added and then deleted: the
\* VirtualHostCache of the Translator is what it was before the ingress was
\* added.
C19_DeleteUndoesAdd ==
    [][(/\ tc.latest.op = "OnAdd"
        /\ ~tc.latest.known
        /\ tc'.latest.op = "OnDelete"
        /\ tc'.latest.obj = tc.latest.obj
        /\ tc'.events = tc.events + 1)
          => tc'.VirtualHostCache = tc.latest.before]_vars

\* the same for the DAG: Insert of an object whose name was free and then
\* Remove of it leave the maps, and so what recompute returns, as they were
InMaps(m, obj) ==
    CASE obj.kind = "Secret" -> obj.name \in DOMAIN m.secrets
      [] obj.kind = "Service" -> obj.name \in DOMAIN m.services
      [] obj.kind = "Ingress" -> obj.name \in DOMAIN m.ingresses
      [] obj.kind = "IngressRoute" -> obj.name \in DOMAIN m.ingressroutes
      [] OTHER -> FALSE

DagRemoveUndoesInsert ==
    [][(/\ lastOp.op = "Insert"
        /\ ~InMaps(lastOp.before, lastOp.obj)
        /\ lastOp'.op = "Remove"
        /\ lastOp'.obj = lastOp.obj
        /\ ops' = ops + 1)
          => (Maps(d') = lastOp.before /\ Builds(d') = Builds(lastOp.before))]_vars

\* C20: two objects of different names or kinds are inserted one after the
\* other: the maps of the DAG, and so the dags recompute can return, are the
\* ones the other order of the two inserts gives.
C20_InsertOrderIndependent ==
    [][(/\ lastOp.op = "Insert"
        /\ lastOp'.op = "Insert"
        /\ ops' = ops + 1
        /\ <<lastOp.obj.kind, lastOp.obj.name>> # <<lastOp'.obj.kind, lastOp'.obj.name>>)
          => LET swapped == insert(insert(lastOp.before, lastOp'.obj), lastOp.obj)
             IN /\ Maps(d') = swapped
                /\ Builds(d') = Builds(swapped)]_vars

\* Ingress a then Service kuard, rebuilt: the dag is one that Service then
\* Ingress gives, with the service attached to the route
C20_Witness ==
    /\ lastOp.op = "Insert"
    /\ lastOp.obj = svcKuard
    /\ lastOp.before = Maps(insert(ZeroDAG, ingA))
    /\ ~d.dag.none
    /\ built = Maps(d)
    /\ d.dag \in Builds(insert(insert(ZeroDAG, svcKuard), ingA))
    /\ d.dag \notin Builds(insert(ZeroDAG, ingA))

\* the kinds of object the DAG keeps
KeptKinds == {"Secret", "Service", "Ingress", "IngressRoute"}

\* the map of the DAG's maps m that holds the objects of a kind
KindMap(m, kind) ==
    CASE kind = "Secret" -> m.secrets
      [] kind = "Service" -> m.services
      [] kind = "Ingress" -> m.ingresses
      [] kind = "IngressRoute" -> m.ingressroutes
      [] OTHER -> EmptyMap

\* C21: Insert(o) of an object of a kind the DAG keeps always goes through:
\* afterwards the map of o's kind holds o under o's name, in place of any
\* object that was there, every other entry of every map is as it was, and
\* the same Insert again changes nothing.
C21_InsertOverwrites ==
    [][(lastOp'.op = "Insert" /\ ops' = ops + 1 /\ lastOp'.obj.kind \in KeptKinds)
         => LET o == lastOp'.obj
            IN /\ o.name \in DOMAIN KindMap(Maps(d'), o.kind)
               /\ KindMap(Maps(d'), o.kind)[o.name] = o
               /\ \A k \in KeptKinds :
                    /\ DOMAIN KindMap(Maps(d'), k) =
                         DOMAIN KindMap(Maps(d), k)
                           \cup (IF k = o.kind THEN {o.name} ELSE {})
                    /\ \A n \in DOMAIN KindMap(Maps(d), k) :
                         (k # o.kind \/ n # o.name)
                           => KindMap(Maps(d'), k)[n] = KindMap(Maps(d), k)[n]
               /\ insert(d', o) = d']_vars

\* ingress a is stored, and its later version is inserted over it
C21_Witness ==
    /\ lastOp.op = "Insert"
    /\ lastOp.obj = ingA2
    /\ "a" \in DOMAIN lastOp.before.ingresses
    /\ lastOp.before.ingresses["a"] = ingA
    /\ d.ingresses["a"] = ingA2

\* the cache of the status builder holds exactly the objects objs
CacheIs(objs) ==
    /\ DOMAIN sb.cache = {o.name : o \in objs}
    /\ \A o \in objs : sb.cache[o.name] = o

C23_DuplicateVhostBoth ==
    sb.built =>
      \A a, b \in RootProxies(sb.cache) :
        (a # b /\ sb.cache[a].fqdn = sb.cache[b].fqdn)
        => /\ sb.status[a] = WithError("DuplicateVhost")
           /\ sb.status[b] = WithError("DuplicateVhost")

\* other-example was inserted first, example-com after it
C23_Witness ==
    /\ sb.built
    /\ CacheIs({pxExampleCom, pxOtherExample})
    /\ sb.latest = "example-com"
    /\ sb.ops = 2
    /\ sb.status["example-com"] = WithError("DuplicateVhost")
    /\ sb.status["other-example"] = WithError("DuplicateVhost")

\* the proxies reached from the proxies of S by following includes
RECURSIVE IncludeClosure(_, _)
IncludeClosure(c, S) ==
    LET more == S \cup UNION {Included(c, m) : m \in S}
    IN IF more = S THEN S ELSE IncludeClosure(c, more)

\* the roots of the cache that the last Build found Valid
ValidRoots == {r \in RootProxies(sb.cache) : sb.status[r] = ValidCondition}

Reasons == {"FQDNNotSpecified", "WildcardNotAllowed", "DuplicateVhost",
            "IncludeNotFound", "IncludeCreatesCycle", "RootIncludesRoot",
            "DuplicateMatchConditions", "TLSConfigNotValid"}

\* a condition that is Valid=True, or Valid=False with a reason of the set
ValidOrReason(cond) ==
    \/ cond = ValidCondition
    \/ cond.type = "Valid" /\ ~cond.status /\ cond.reason \in Reasons

RootsWithoutSecret ==
    {r \in RootProxies(sb.cache) : /\ Claimants(sb.cache, sb.cache[r].fqdn) = {r}
                                   /\ sb.cache[r].fqdn # ""
                                   /\ sb.cache[r].tls \notin DOMAIN sb.cache
                                   /\ sb.cache[r].tls # ""}

\* C26: when a root with TLS names a Secret that is not in the cache, no
\* port 443 virtual host is produced for its host while its port 80 virtual
\* host and routes still are (a proxy has no way to opt out of HTTP)
C26_MissingSecretKeepsHTTP ==
    sb.built =>
      \A r \in RootsWithoutSecret :
        /\ sb.cache[r].fqdn \notin sb.secure
        /\ sb.cache[r].fqdn \in sb.vhosts

\* C26 as the tests have it for an HTTPProxy: a root with TLS whose Secret
\* is not in the cache is not valid, and neither a port 443 nor a port 80
\* virtual host is produced for its host
C26_MissingSecretDropsProxy ==
    sb.built =>
      \A r \in RootsWithoutSecret :
        /\ sb.cache[r].fqdn \notin sb.secure
        /\ sb.cache[r].fqdn \notin sb.vhosts
        /\ sb.status[r].type = "Valid" /\ ~sb.status[r].status

\* secret1 and p1 were inserted and secret1 removed
C26_Witness ==
    /\ sb.built
    /\ sb.ops = 3
    /\ CacheIs({pxSimple})
    /\ sb.vhosts = {}
    /\ sb.secure = {}

\* In the DAG of Ingress and IngressRoute objects, a root ingressroute with
\* TLS whose Secret is not in the cache has its port 80 virtual host with
\* its route and no port 443 virtual host
DagMissingSecretKeepsHTTP ==
    ("r" \in DOMAIN d.ingressroutes /\ d.ingressroutes["r"] = irRoot
        /\ "secret" \notin DOMAIN d.secrets)
    => \A g \in Builds(d) :
         /\ <<"h", 443>> \notin DOMAIN g.roots
         /\ <<"h", 80>> \in DOMAIN g.roots
         /\ "/" \in DOMAIN g.roots[<<"h", 80>>].routes

\* the routes of ingress ing in the port 80 virtual hosts of the dag g
Port80Routes(g, ing) ==
    {<<hp, path>> \in UNION {{hp} \X DOMAIN g.roots[hp].routes : hp \in DOMAIN g.roots} :
        hp[2] = 80 /\ g.roots[hp].routes[path].object = ing}

\* the ingresses of the last recompute that have annotation key with value
\* "false"
AnnotatedFalse(key) ==
    {n \in DOMAIN built.ingresses :
        /\ key \in DOMAIN built.ingresses[n].annotations
        /\ built.ingresses[n].annotations[key] = "false"}

\* C28: an Ingress annotated kubernetes.io/allow-http: "false" has no route
\* in any port 80 virtual host of the dag, and one with another value of the
\* annotation has a port 80 route for each of its rules
C28_AllowHTTPFalseNoPort80 ==
    ~d.dag.none =>
      /\ \A n \in AnnotatedFalse("kubernetes.io/allow-http") :
            Port80Routes(d.dag, built.ingresses[n]) = {}
      /\ \A n \in DOMAIN built.ingresses :
            LET ing == built.ingresses[n]
            IN ("kubernetes.io/allow-http" \in DOMAIN ing.annotations
                  /\ ing.annotations["kubernetes.io/allow-http"] # "false")
               => \A i \in DOMAIN ing.rules :
                     <<HostOf(ing.rules[i]), 80>> \in DOMAIN d.dag.roots

\* With the annotation of the tests, kubernetes.io/ingress.allow-http, the
\* Ingress annotated "false" has no route in any port 80 virtual host
DagIngressAllowHTTPFalse ==
    ~d.dag.none =>
      \A n \in AnnotatedFalse("kubernetes.io/ingress.allow-http") :
        Port80Routes(d.dag, built.ingresses[n]) = {}

\* ingress c, with the annotation of the tests, has been recomputed
DagIngressAllowHTTPFalseSeen ==
    /\ ~d.dag.none
    /\ "c" \in AnnotatedFalse("kubernetes.io/ingress.allow-http")
    /\ "secret" \in DOMAIN built.secrets

\* C27: an Ingress whose class is not the configured one contributes nothing
\* to the virtual hosts the Translator serves, also after other ingresses
\* have had the same virtual host recomputed
C27_OtherClassContributesNothing ==
    \A h \in DOMAIN tc.VirtualHostCache :
      \A r \in tc.VirtualHostCache[h] :
        r.ingress \notin {obj.name : obj \in {i \in Ingresses : otherClass(i)}}

\* the conditions of our Gateway on the route
OurConditions == getGatewayConditions(hr.route.Gateways)

\* C29: when a newly computed condition has the type, status, reason and
\* message of a condition already on the object, the condition written back
\* has the lastTransitionTime of that existing condition
C29_KeepsLastTransitionTime ==
    [][hr'.updates = hr.updates + 1
         => \A i \in DOMAIN OurConditions' : \A j \in DOMAIN OurConditions :
              Content(OurConditions'[i]) = Content(OurConditions[j])
                => OurConditions'[i].LastTransitionTime
                     = OurConditions[j].LastTransitionTime]_vars

\* C30: applying the same status update a second time to the object changes
\* nothing: the object is what the first application made it
C30_MutateIdempotent ==
    [][(hr.applied = 1 /\ hr'.applied = 2) => hr'.route = hr.route]_vars

\* the update was applied twice to a route that has conditions of ours from
\* an earlier update and the status of the other Gateway
C30_Witness ==
    /\ hr.applied = 2
    /\ hr.before # <<>>
    /\ Len(hr.route.Gateways) = 2
    /\ hr.route.Gateways[1].GatewayRef = gatewayRef
    /\ hr.route.Gateways[1].Conditions # hr.before

\* C31: the observedGeneration of a condition a status update writes is
\* never lower than that of the condition of the same type already on the
\* object
C31_ObservedGenerationMonotone ==
    [][hr'.updates = hr.updates + 1
         => \A i \in DOMAIN OurConditions' : \A j \in DOMAIN OurConditions :
              OurConditions'[i].Type = OurConditions[j].Type
                => OurConditions'[i].ObservedGeneration
                     >= OurConditions[j].ObservedGeneration]_vars

\* an update at generation 2 has written a condition over one of its type
\* that was observed at generation 1
C31_Witness ==
    /\ hr.applied = 1
    /\ hr.route.Generation = 2
    /\ \E i \in DOMAIN OurConditions : \E j \in DOMAIN hr.before :
          /\ OurConditions[i].Type = hr.before[j].Type
          /\ OurConditions[i].ObservedGeneration = 2
          /\ hr.before[j].ObservedGeneration = 1

\* C32: an Endpoints add or update whose subsets list is empty leaves the
\* ClusterLoadAssignment cache as it was and signals no waiter: no version
\* is bumped, no channel is written and no waiter is dropped
C32_EmptySubsetsIgnored ==
    [][(/\ te'.events = te.events + 1
        /\ te'.latest.op \in {"OnAdd", "OnUpdate"}
        /\ te'.latest.obj.kind = "Endpoints"
        /\ te'.latest.obj.Subsets = <<>>)
         => /\ te'.ClusterLoadAssignmentCache = te.ClusterLoadAssignmentCache
            /\ UNCHANGED <<condLast, waiters, ch>>]_vars

\* kuard has a ClusterLoadAssignment, a stream waits on the endpoints cache,
\* and the latest event updated kuard's endpoints to no subsets
C32_Witness ==
    /\ te.latest.op = "OnUpdate"
    /\ te.latest.obj = epKuardEmpty
    /\ "kuard" \in DOMAIN te.services
    /\ te.ClusterLoadAssignmentCache # EmptyMap
    /\ waiters[endpointType] # <<>>

\* the names of the ports of the model
PortNames == {"", "http"}

\* C33: the endpoints cache holds no ClusterLoadAssignment for a service
\* that is not present
C33_NoAssignmentWithoutService ==
    \A n \in DOMAIN te.ClusterLoadAssignmentCache :
       \E name \in DOMAIN te.services : \E portname \in PortNames :
          n = servicename(name, portname)

\* C34: hashname(l, s...) returns a string whose length does not exceed l,
\* for every limit l >= 0 and every list of components s
C34_HashnameWithinLimit ==
    hn.called => Len(hn.r) <= hn.l

\* the joined name is over the limit and so is the name with every
\* component truncated: the result is the digest cut to the limit
C34_Witness ==
    /\ hn.called
    /\ hn.l > 0
    /\ Len(Join(hn.s)) >= hn.l
    /\ hn.r = SubSeq(hn.hash, 1, hn.l)

\* a component was replaced by a shorter one that ends in the short hash
HashnameTruncatesComponent ==
    /\ hn.called
    /\ Len(hn.s) = 2
    /\ hn.r = hn.s[1] \o "/" \o SubSeq(hn.s[2], 1, (hn.l \div 2) - 7) \o "-"
                \o SubSeq(hn.hash, 1, shorthash)
    /\ hn.r # Join(hn.s)

\* the total length of the header matchers hs: their names and the values
\* they match exactly
RECURSIVE headerLength(_)
headerLength(hs) ==
    IF hs = <<>> THEN 0
    ELSE Len(Head(hs).Name)
         + (IF Head(hs).match = "exact_match" THEN Len(Head(hs).value) ELSE 0)
         + headerLength(Tail(hs))

\* regex before exact before prefix, then the longer path, then the greater
\* number of header matchers
FirstKeys(r) == <<kindRank(r.kind), 0 - Len(r.path), 0 - Len(r.headers)>>

\* tuple k sorts before tuple m: the first key that differs is smaller
KeysBefore(k, m) ==
    \E i \in DOMAIN k : k[i] < m[i] /\ \A j \in 1..(i - 1) : k[j] = m[j]

\* route lhs sorts before rhs, the fourth key being the total header-matcher
\* length, greater first
LengthBefore(lhs, rhs) ==
    KeysBefore(FirstKeys(lhs) \o <<0 - headerLength(lhs.headers)>>,
               FirstKeys(rhs) \o <<0 - headerLength(rhs.headers)>>)

\* route lhs sorts before rhs, the fourth key being the header matchers
\* themselves, by name and then by the text of the matcher
NameBefore(lhs, rhs) ==
    \/ KeysBefore(FirstKeys(lhs), FirstKeys(rhs))
    \/ FirstKeys(lhs) = FirstKeys(rhs) /\ headersLess(lhs.headers, rhs.headers)

\* the sorter returned every route it was given, once
SortedAll ==
    /\ Len(so.order) = Len(so.have)
    /\ {so.order[k] : k \in DOMAIN so.order} = DOMAIN so.have

Resolvable(m, route) ==
    {route.Services[j].Name : j \in {k \in DOMAIN route.Services :
        /\ route.Services[k].Name \in DOMAIN m.services
        /\ \E i \in DOMAIN m.services[route.Services[k].Name].ports :
              m.services[route.Services[k].Name].ports[i].Port = route.Services[k].Port}}

\* the root ingressroutes the dag was recomputed from
BuiltRoots == {n \in DOMAIN built.ingressroutes : ~built.ingressroutes[n].virtualhost.none}

\* C36: every route of a root ingressroute is in the port 80 virtual host of
\* its FQDN with exactly the resolvable ones of its services attached, also
\* when none of them resolves
C36_RouteKeptWithResolvableServices ==
    ~d.dag.none =>
       \A n \in BuiltRoots :
          LET ir == built.ingressroutes[n]
              hp == <<ir.virtualhost.Fqdn, 80>>
          IN \A i \in DOMAIN ir.routes :
                LET path == IF ir.routes[i].Match = "" THEN "/" ELSE ir.routes[i].Match
                IN /\ hp \in DOMAIN d.dag.roots
                   /\ path \in DOMAIN d.dag.roots[hp].routes
                   /\ d.dag.roots[hp].routes[path].object = ir
                   /\ DOMAIN d.dag.roots[hp].routes[path].services
                        = Resolvable(built, ir.routes[i])

\* the dag was recomputed with ingressroute r and service kuard: of the two
\* services of r's route, kuard alone is attached
C36_Witness ==
    /\ ~d.dag.none
    /\ "r" \in BuiltRoots
    /\ "kuard" \in DOMAIN built.services
    /\ DOMAIN d.dag.roots[<<"h", 80>>].routes["/"].services = {"kuard"}

\* the dag was recomputed with ingressroute r and no service: the route is
\* there without a service
DagRouteWithoutService ==
    /\ ~d.dag.none
    /\ "r" \in BuiltRoots
    /\ DOMAIN built.services = {}
    /\ DOMAIN d.dag.roots[<<"h", 80>>].routes["/"].services = {}

\* C38: a Visit does not fail in any state of the DAG, and a Visit of a DAG
\* that was never recomputed calls f for no root
C38_VisitNeverFails ==
    /\ visit.pc # "panic"
    /\ (visit.pc \in {"visiting", "done"} /\ visit.dag.none) => visit.seen = EmptyMap

\* C40: for a root ingressroute with a TLS section whose secret is in the
\* cache, the port 443 virtual host of its FQDN has the same routes as the
\* port 80 virtual host
C40_SecureVhostHasTheRoutes ==
    ~d.dag.none =>
       \A n \in BuiltRoots :
          LET ir == built.ingressroutes[n]
              host == ir.virtualhost.Fqdn
          IN (ir.virtualhost.tls # "" /\ ir.virtualhost.tls \in DOMAIN built.secrets)
             => /\ <<host, 443>> \in DOMAIN d.dag.roots
                /\ <<host, 80>> \in DOMAIN d.dag.roots
                /\ d.dag.roots[<<host, 443>>].routes = d.dag.roots[<<host, 80>>].routes

\* C39: UpdateNow is called at most once as a result of the election: each
\* call is made by the election goroutine's case on the closed leader
\* channel and disables that case, the case stays disabled, and the channel
\* stays readable
C39_UpdateNowAtMostOnce ==
    /\ [][(rpc["leader"] # "requested" /\ rpc'["leader"] = "requested")
            => (isLeader /\ leaderCase /\ ~leaderCase')]_vars
    /\ [][~leaderCase => ~leaderCase']_vars
    /\ [][isLeader => isLeader']_vars

\* the replica was elected, UpdateNow was called and its rebuild has run;
\* the leader channel is still readable and the case is disabled
C39_Witness ==
    /\ eh.election
    /\ isLeader
    /\ ~leaderCase
    /\ rpc["leader"] = "idle"
    /\ eh.rebuilds > 0

\* stream s has received a request for a registered type and nothing has
\* ended it
Streaming(s) == pc[s] \in {"register", "select", "values"} /\ ~ctxDone[s]

\* what the cache of stream s's type holds now, seen through the filter of
\* its request
Matched(s) ==
    IF res[s] \in DOMAIN cache
    THEN toAny(res[s], toFilter(req[s].resource_names))
    ELSE <<>>

\* the latest response on stream s carries what the cache holds now
UpToDate(s) == sent[s] # <<>> /\ Last(sent[s]).resources = Matched(s)

\* C37: when the cache of an open stream's type has been updated and the
\* stream's filter matches a resource, the stream in the end has sent a
\* response with the latest contents, whenever the updates came; unless the
\* stream was cancelled or an update left nothing that matches
C37_LatestUpdateSent ==
    \A s \in Streams :
       (Streaming(s) /\ condLast[res[s]] > 0 /\ Len(Matched(s)) > 0)
          ~> (ctxDone[s] \/ Len(Matched(s)) = 0 \/ UpToDate(s))

\* the stream has sent the contents of two updates, one response after each
C37_Witness ==
    \E s \in Streams :
       /\ Streaming(s)
       /\ condLast[res[s]] = 2
       /\ last[s] = 2
       /\ Len(sent[s]) = 2
       /\ sent[s][1].resources # sent[s][2].resources
       /\ UpToDate(s)

\* the second update came after the stream was notified of the first and
\* before it registered again
StreamBehindBeforeRegister ==
    \E s \in Streams :
       /\ Streaming(s)
       /\ pc[s] = "register"
       /\ last[s] = 1
       /\ condLast[res[s]] = 2
       /\ Len(Matched(s)) > 0
       /\ ~UpToDate(s)

\* the same for the stream0 of part_006, which sends every resource of its
\* type
UpToDate0(s) ==
    /\ res[s] \in DOMAIN cache
    /\ sent[s] # <<>>
    /\ Last(sent[s]).resources = Resources(res[s])

Stream0LatestUpdateSent ==
    \A s \in Streams :
       (pc[s] \in {"register", "select", "values"} /\ ~ctxDone[s] /\ condLast[res[s]] > 0)
          ~> (UpToDate0(s) \/ ctxDone[s])

====
